---- MODULE Spec2Model ----
(***************************************************************************)
(* HotStock: stock-picking competitions.  The model follows the latest     *)
(* revision of index.ts (kept in planning/ralph-generation-transcript.md,  *)
(* lines 163-1242; index.ts lines 1-838 is the revision before portfolio   *)
(* shares and budgets, identical in the lifecycle and refresh code), the   *)
(* schema and audit helper of src/db.ts and the adapter of src/yahoo.ts.   *)
(*                                                                         *)
(* Time is measured in minutes.  Money and percentages are exact rationals *)
(* <<numerator, denominator>> (JavaScript doubles are abstracted to reals).*)
(* Every `await` on an adapter call is a point where a handler is          *)
(* suspended and other handlers may run; the code between two awaits is    *)
(* one atomic step (single-threaded event loop, synchronous bun:sqlite).   *)
(***************************************************************************)
EXTENDS Integers, Sequences, FiniteSets, TLC

\* ------------------------------------------------------------------ bounds
\* Specification SpecLock
LockComps == 2
LockParticipants == 2
LockAudit == 4
\* Specification SpecGate
GateComps == 1
GateParticipants == 1
GateAudit == 3
GateTicks == 2
\* Specification SpecNames
NamesComps == 2
NamesParticipants == 2
NamesAudit == 3
\* Specification SpecRace
RaceComps == 1
RaceParticipants == 2
RaceAudit == 4
RaceTicks == 2
\* Specification SpecLocked
LockedTicks == 3
\* Specification SpecRefresh
RefreshComps == 1
RefreshParticipants == 1
RefreshTicks == 6
RefreshHistory == 3
SkipHistory == 2
OverlapComps == 1
OverlapParticipants == 1
OverlapTicks == 1
OverlapHistory == 3
PortfolioComps == 1
PortfolioParticipants == 1
PortfolioAudit == 3
LimitAudit == 3
UniqueAudit == 3
TwiceTicks == 5

\* ------------------------------------------------------- program constants
\* index.ts: const CACHE_TTL_MS = 5 * 60 * 1000, here in minutes.
CACHE_TTL_MS == 5
\* index.ts: if (tickerList.length > 10)
MAX_PORTFOLIO == 10

\* SQL NULL / JavaScript null for a nullable number
NULL == <<>>

\* An adapter call that does not resolve: fetch() rejects (the network is
\* down) or response.json() throws, and fetchPrice / fetchHistoricalPrice
\* catch nothing.  No handler catches it either: the request ends in the
\* framework's 500 response, the writes it made so far kept.
Rejected == <<0>>

\* The wall clock at server start.  Date.now() is far larger than the TTL, so
\* a competition without a priceCache entry (lastRefresh = 0) is always stale.
StartTime == CACHE_TTL_MS + 1

\* ------------------------------------------------------------- rationals
RECURSIVE GCD(_, _)
GCD(a, b) == IF b = 0 THEN a ELSE GCD(b, a % b)

Abs(x) == IF x < 0 THEN -x ELSE x

Rat(n, d) ==
    LET s == IF d < 0 THEN -1 ELSE 1
        g == GCD(Abs(n), Abs(d))
    IN  <<(s * n) \div g, (s * d) \div g>>

R(i) == <<i, 1>>
RAdd(x, y) == Rat(x[1] * y[2] + y[1] * x[2], x[2] * y[2])
RSub(x, y) == Rat(x[1] * y[2] - y[1] * x[2], x[2] * y[2])
RMul(x, y) == Rat(x[1] * y[1], x[2] * y[2])
RDiv(x, y) == Rat(x[1] * y[2], x[2] * y[1])
RLt(x, y) == x[1] * y[2] < y[1] * x[2]
RZero == R(0)

\* JavaScript truthiness of a nullable number: null and 0 are falsy.
Truthy(x) == x # NULL /\ x # RZero

\* x || 0 for a nullable number
OrZero(x) == IF Truthy(x) THEN x ELSE RZero

RECURSIVE SumSeq(_, _)
SumSeq(f(_), s) == IF s = <<>> THEN RZero ELSE RAdd(f(Head(s)), SumSeq(f, Tail(s)))

Range(s) == {s[i] : i \in DOMAIN s}

\* ------------------------------------------------------------------ state
VARIABLES
    now,               \* wall clock, minutes
    competitions,      \* table competitions, rows in insertion order (id = position)
    participants,      \* table participants, rows in insertion order
    portfolio_stocks,  \* table portfolio_stocks, rows in insertion order
    audit_log,         \* table audit_log, rows in insertion order
    price_history,     \* table price_history, rows in insertion order
    priceCache,        \* index.ts priceCache: competition id -> time of last refresh
    joinReq,           \* join handlers: slot -> request record
    editReq,           \* edit handlers: slot -> request record
    refreshReq,        \* detail handlers running refreshPricesIfNeeded: slot -> record
    last,              \* the response the latest step sent, NoResponse if none
    yahoo              \* yahoo.ts: its priceCache and the adapter call in progress

vars == <<now, competitions, participants, portfolio_stocks, audit_log,
          price_history, priceCache, joinReq, editReq, refreshReq, last, yahoo>>

\* --------------------------------------------------------- string helpers
\* The strings requests may carry.  NoName stands for a missing, empty or
\* over-long value, which validateStringInput rejects.
NoName == ""
NameInputs == {NoName, "Alice", "ALICE", " alice ", "Bob", "Zoë", "ZOË"}

\* String.prototype.trim on the strings above
trim(v) ==
    IF v = " alice " THEN "alice" ELSE IF v = " AAA " THEN "AAA" ELSE v

\* SQLite's built-in LOWER() on the names above: it folds the ASCII letters
\* only and leaves every other character as it is.
LOWER(v) ==
    CASE v = "Alice" -> "alice"
      [] v = "ALICE" -> "alice"
      [] v = "Bob" -> "bob"
      [] v = "Zoë" -> "zoë"
      [] v = "ZOË" -> "zoË"
      [] OTHER -> v

\* String.prototype.toUpperCase on the tickers above
toUpperCase(v) == IF v = "aaa" THEN "AAA" ELSE v

Invalid == "<invalid>"

\* validateStringInput: the sanitized string, or Invalid.  (No string of the
\* model carries an HTML tag, so the tag-stripping replace() changes nothing.)
validateStringInput(value) ==
    LET trimmed == trim(value)
    IN  IF trimmed = "" THEN Invalid ELSE trimmed

\* ------------------------------------------------------- lifecycle policy
isPickWindowOpen(competition, t) ==
    t >= competition.pick_window_start /\ t <= competition.pick_window_end

\* A lock policy that locks a live competition from pick_window_end on.
isCompetitionLockedAtEnd(competition, t) ==
    IF competition.backfill_mode # 0
    THEN competition.finalized = 1
    ELSE t >= competition.pick_window_end

\* A lock policy that admits picks in a live competition only while the
\* pick window is open.
isCompetitionLockedUnlessOpen(competition, t) ==
    IF competition.backfill_mode # 0
    THEN competition.finalized = 1
    ELSE ~isPickWindowOpen(competition, t)

\* A lock policy that locks a live competition for one minute only.
isCompetitionLockedBriefly(competition, t) ==
    IF competition.backfill_mode # 0
    THEN competition.finalized = 1
    ELSE t > competition.pick_window_end
         /\ t <= competition.pick_window_end + 1

isCompetitionLocked(competition, t) ==
    IF competition.backfill_mode # 0
    THEN competition.finalized = 1
    ELSE t > competition.pick_window_end

\* findCompetition resolves slugOrId to a row or to nothing.  A competition's
\* slug and id are both modelled by its position in the table.
Found(slugOrId) == slugOrId \in DOMAIN competitions

findCompetition(slugOrId) == competitions[slugOrId]

\* logAuditEvent(competitionId, action, actorName, details)
logAuditEvent(log, competitionId, action, actorName) ==
    Append(log, [competition_id |-> competitionId, action |-> action,
                 actor_name |-> actorName])

ParticipantsOf(c) == SelectSeq(participants, LAMBDA p : p.competition_id = c)


\* ----------------------------------------------------------- generateId
\* generateId() returns a random UUID; ids are only ever compared for
\* equality, so a new row takes the smallest id no row and no handler holds.
\* Participants are never deleted: a new participant's id is its position.
UsedStockIds ==
    {portfolio_stocks[k].id : k \in DOMAIN portfolio_stocks}
    \cup UNION {{refreshReq[r].stocks[k].id : k \in DOMAIN refreshReq[r].stocks}
                : r \in DOMAIN refreshReq}

FreshStockIds(n) ==
    LET free == (1..(Cardinality(UsedStockIds) + n)) \ UsedStockIds
    IN  [k \in 1..n |->
            CHOOSE x \in free : Cardinality({y \in free : y < x}) = k - 1]

\* Handlers in progress that may add a row when they finish.
JoinsInFlight == {q \in DOMAIN joinReq : joinReq[q].pc # "idle"}
EditsInFlight == {q \in DOMAIN editReq : editReq[q].pc # "idle"}

\* The bounds of a specification: a request that could add a participant
\* (an audit event) is taken only while the table has room for the rows of
\* every handler in progress and one more.
RoomForParticipant(max) ==
    Len(participants) + Cardinality(JoinsInFlight) < max

RoomForAudit(max) ==
    Len(audit_log) + Cardinality(JoinsInFlight) + Cardinality(EditsInFlight) < max

\* ------------------------------------------------------------ initial state
IdleJoin ==
    [pc |-> "idle", comp |-> 0, name |-> NoName, tickers |-> <<>>,
     shares |-> <<>>, i |-> 0, baseline |-> NULL, stockData |-> <<>>]

IdleEdit ==
    [pc |-> "idle", participant |-> 0, tickers |-> <<>>, shares |-> <<>>,
     current |-> <<>>, i |-> 0, baseline |-> NULL, added |-> <<>>]

IdleRefresh ==
    [pc |-> "idle", comp |-> 0, finalized |-> 0, startedAt |-> 0,
     stocks |-> <<>>, i |-> 0, toUpdate |-> {}, calls |-> 0]

\* The result slot of an adapter call that has not returned.
NoResult == <<1>>

\* yahoo.ts: the module's priceCache (cache key -> price, fetchedAt) and the
\* call of fetchPrice / fetchHistoricalPrice in progress: its position, the
\* upstream requests it issued, the statuses it received, what it returned.
YahooIdle ==
    [cache |-> <<>>, pc |-> "idle", fn |-> "none", ticker |-> "",
     requests |-> 0, responses |-> <<>>, returned |-> NoResult]

\* A response: the operation, the competition it named, the outcome and, for
\* a competition detail, the derived flags.
Response(op, comp, result) ==
    [op |-> op, comp |-> comp, name |-> NoName, result |-> result,
     refresh |-> "none", calls |-> 0, total |-> 0, is_locked |-> FALSE,
     can_join |-> FALSE, is_pick_window_open |-> FALSE,
     leaderboard |-> <<>>]

NoResponse == Response("none", 0, "none")

\* Handlers that can be in progress at the same time.
JoinSlots == {1, 2}
EditSlots == {1, 2}
RefreshSlots == {1, 2}

Init ==
    /\ now = StartTime
    /\ competitions = <<>>
    /\ participants = <<>>
    /\ portfolio_stocks = <<>>
    /\ audit_log = <<>>
    /\ price_history = <<>>
    /\ priceCache = <<>>
    /\ yahoo = YahooIdle
    /\ joinReq = [r \in JoinSlots |-> IdleJoin]
    /\ editReq = [r \in EditSlots |-> IdleEdit]
    /\ refreshReq = [r \in RefreshSlots |-> IdleRefresh]
    /\ last = NoResponse

\* ------------------------------------------------------------------- clock
Tick(limit) ==
    /\ now < limit
    /\ now' = now + 1
    /\ last' = NoResponse
    /\ UNCHANGED <<competitions, participants, portfolio_stocks, audit_log,
                   price_history, priceCache, joinReq, editReq, refreshReq, yahoo>>

\* ------------------------------------------- POST /api/competitions (create)
CreateCompetition(pick_window_start, pick_window_end, backfill_mode, budget) ==
    LET isBackfill == backfill_mode = TRUE
        id == Len(competitions) + 1
        error ==
            IF budget # NULL /\ ~RLt(RZero, budget) THEN "ValidationError"
            ELSE IF pick_window_end <= pick_window_start THEN "ValidationError"
            ELSE IF ~isBackfill /\ pick_window_start < now THEN "ValidationError"
            ELSE "ok"
    IN  /\ IF error = "ok"
           THEN competitions' = Append(competitions,
                    [id |-> id,
                     pick_window_start |-> pick_window_start,
                     pick_window_end |-> pick_window_end,
                     backfill_mode |-> IF isBackfill THEN 1 ELSE 0,
                     finalized |-> 0,
                     budget |-> budget])
           ELSE UNCHANGED competitions
        /\ last' = Response("create", IF error = "ok" THEN id ELSE 0, error)
        /\ UNCHANGED <<now, participants, portfolio_stocks, audit_log,
                       price_history, priceCache, joinReq, editReq,
                       refreshReq, yahoo>>

\* --------------------------- POST /api/competitions/:slugOrId/finalize
\* A finalize handler without the participant count check.
finalizeOutcomeOfEmpty(slugOrId) ==
    IF ~Found(slugOrId) THEN "NotFound"
    ELSE IF findCompetition(slugOrId).backfill_mode = 0 THEN "NotBackfill"
    ELSE IF findCompetition(slugOrId).finalized # 0 THEN "AlreadyFinalized"
    ELSE "ok"

finalizeOutcome(slugOrId) ==
    IF ~Found(slugOrId) THEN "NotFound"
    ELSE IF findCompetition(slugOrId).backfill_mode = 0 THEN "NotBackfill"
    ELSE IF findCompetition(slugOrId).finalized # 0 THEN "AlreadyFinalized"
    ELSE IF Len(ParticipantsOf(findCompetition(slugOrId).id)) = 0
         THEN "EmptyCompetition"
    ELSE "ok"

Finalize(slugOrId) ==
    LET outcome == finalizeOutcome(slugOrId)
    IN  /\ IF outcome = "ok"
           THEN /\ competitions' =
                     [competitions EXCEPT ![slugOrId].finalized = 1]
                /\ audit_log' = logAuditEvent(audit_log, slugOrId, "lock", NoName)
           ELSE UNCHANGED <<competitions, audit_log>>
        /\ last' = Response("finalize", slugOrId, outcome)
        /\ UNCHANGED <<now, participants, portfolio_stocks, price_history,
                       priceCache, joinReq, editReq, refreshReq, yahoo>>

\* ------------------------- POST /api/competitions/:slugOrId/unfinalize
\* An unfinalize handler without the check that the competition is finalized.
unfinalizeOutcomeOfOpen(slugOrId) ==
    IF ~Found(slugOrId) THEN "NotFound"
    ELSE IF findCompetition(slugOrId).backfill_mode = 0 THEN "NotBackfill"
    ELSE "ok"

unfinalizeOutcome(slugOrId) ==
    IF ~Found(slugOrId) THEN "NotFound"
    ELSE IF findCompetition(slugOrId).backfill_mode = 0 THEN "NotBackfill"
    ELSE IF findCompetition(slugOrId).finalized = 0 THEN "NotFinalized"
    ELSE "ok"

\* An unfinalize handler that writes no audit event.
UnfinalizeUnlogged(slugOrId) ==
    LET outcome == unfinalizeOutcome(slugOrId)
    IN  /\ IF outcome = "ok"
           THEN /\ competitions' =
                     [competitions EXCEPT ![slugOrId].finalized = 0]
                /\ UNCHANGED audit_log
           ELSE UNCHANGED <<competitions, audit_log>>
        /\ last' = Response("unfinalize", slugOrId, outcome)
        /\ UNCHANGED <<now, participants, portfolio_stocks, price_history,
                       priceCache, joinReq, editReq, refreshReq, yahoo>>

Unfinalize(slugOrId) ==
    LET outcome == unfinalizeOutcome(slugOrId)
    IN  /\ IF outcome = "ok"
           THEN /\ competitions' =
                     [competitions EXCEPT ![slugOrId].finalized = 0]
                /\ audit_log' = logAuditEvent(audit_log, slugOrId, "unlock", NoName)
           ELSE UNCHANGED <<competitions, audit_log>>
        /\ last' = Response("unfinalize", slugOrId, outcome)
        /\ UNCHANGED <<now, participants, portfolio_stocks, price_history,
                       priceCache, joinReq, editReq, refreshReq, yahoo>>


\* ------------------------------------------------------ valuation engine
\* ((current - baseline) / baseline) * 100
percentOf(baselinePrice, currentPrice) ==
    RMul(RDiv(RSub(currentPrice, baselinePrice), baselinePrice), R(100))

\* join/edit: baselinePrice && currentPrice ? ((c - b) / b) * 100 : 0
stockPercentChange(baselinePrice, currentPrice) ==
    IF Truthy(baselinePrice) /\ Truthy(currentPrice)
    THEN percentOf(baselinePrice, currentPrice)
    ELSE RZero

\* The plain average of the percent changes, whatever the investment.
calculateSimpleAverage(stocks) ==
    LET plain(s) == s.percentChange
    IN  RDiv(SumSeq(plain, stocks), R(Len(stocks)))

\* The weighted sum whose fallback adds the percent changes up without
\* dividing by their number.
calculateWeightedOrTotal(stocks) ==
    LET initial(s) == RMul(s.shares, OrZero(s.baselinePrice))
        total == SumSeq(initial, stocks)
        plain(s) == s.percentChange
        weighted(s) == RMul(RDiv(initial(s), total), s.percentChange)
    IN  IF total = RZero
        THEN SumSeq(plain, stocks)
        ELSE SumSeq(weighted, stocks)

\* calculateWeightedPercentChange(stocks), stocks a non-empty sequence of
\* records with shares, baselinePrice and percentChange
calculateWeightedPercentChange(stocks) ==
    LET initialValue(s) == RMul(s.shares, OrZero(s.baselinePrice))
        totalInvestment == SumSeq(initialValue, stocks)
        plain(s) == s.percentChange
        weighted(s) == RMul(RDiv(initialValue(s), totalInvestment), s.percentChange)
    IN  IF totalInvestment = RZero
        THEN RDiv(SumSeq(plain, stocks), R(Len(stocks)))
        ELSE SumSeq(weighted, stocks)

StocksOf(stocks, participantId) ==
    SelectSeq(stocks, LAMBDA s : s.participant_id = participantId)

\* updateParticipantAggregate(participantId): the participants table after the
\* aggregate of participantId is recomputed from the stocks table given
updateParticipantAggregate(rows, stocks, participantId) ==
    LET priced == SelectSeq(StocksOf(stocks, participantId),
                            LAMBDA s : s.percent_change # NULL)
        asInput == [k \in DOMAIN priced |->
                      [shares |-> priced[k].shares,
                       baselinePrice |-> priced[k].baseline_price,
                       percentChange |-> priced[k].percent_change]]
        value == IF Len(priced) = 0 THEN NULL
                 ELSE calculateWeightedPercentChange(asInput)
    IN  [k \in DOMAIN rows |->
            IF rows[k].id = participantId
            THEN [rows[k] EXCEPT !.percent_change = value]
            ELSE rows[k]]

\* Share auto-allocation of join and edit: stocks with shares 0 ask for it.
allocateShares(stockData, budget) ==
    LET needsAutoShares == \E k \in DOMAIN stockData : stockData[k].shares = RZero
        amountPerStock == RDiv(budget, R(Len(stockData)))
    IN  IF needsAutoShares /\ Truthy(budget)
        THEN [k \in DOMAIN stockData |->
                [stockData[k] EXCEPT !.shares =
                    IF Truthy(stockData[k].baselinePrice)
                    THEN RDiv(amountPerStock, stockData[k].baselinePrice)
                    ELSE R(1)]]
        ELSE IF needsAutoShares
        THEN [k \in DOMAIN stockData |-> [stockData[k] EXCEPT !.shares = R(1)]]
        ELSE stockData

\* totalInvestment > budget * 1.01
budgetExceeded(stockData, budget) ==
    LET initialValue(s) == RMul(s.shares, OrZero(s.baselinePrice))
    IN  /\ Truthy(budget)
        /\ RLt(RMul(budget, Rat(101, 100)), SumSeq(initialValue, stockData))


\* ------------------------------- POST /api/competitions/:slugOrId/join
\* portfolioInput is a sequence of [ticker, shares]; the legacy request
\* formats (tickers / ticker) arrive as shares = 0.
sanitizeTickers(portfolioInput) ==
    [k \in DOMAIN portfolioInput |->
        IF validateStringInput(portfolioInput[k].ticker) = Invalid THEN Invalid
        ELSE toUpperCase(validateStringInput(portfolioInput[k].ticker))]

\* The request validation without the check for duplicate tickers.
validationFailsOnShape(name, portfolioInput) ==
    \/ name = NoName
    \/ Len(portfolioInput) = 0
    \/ Len(portfolioInput) > MAX_PORTFOLIO
    \/ validateStringInput(name) = Invalid
    \/ \E k \in DOMAIN portfolioInput :
          validateStringInput(portfolioInput[k].ticker) = Invalid

\* The request validation join and edit share (edit passes a valid name).
validationFails(name, portfolioInput) ==
    \/ name = NoName
    \/ Len(portfolioInput) = 0
    \/ Len(portfolioInput) > MAX_PORTFOLIO
    \/ validateStringInput(name) = Invalid
    \/ \E k \in DOMAIN portfolioInput :
          validateStringInput(portfolioInput[k].ticker) = Invalid
    \/ Cardinality(Range(sanitizeTickers(portfolioInput))) # Len(portfolioInput)

nameTaken(competitionId, sanitizedName) ==
    \E k \in DOMAIN participants :
        /\ participants[k].competition_id = competitionId
        /\ LOWER(participants[k].name) = LOWER(sanitizedName)

\* The checks of the join handler before its first await, in code order.
joinCheck(slugOrId, name, portfolioInput) ==
    IF validationFails(name, portfolioInput) THEN "ValidationError"
    ELSE IF ~Found(slugOrId) THEN "NotFound"
    ELSE IF isCompetitionLocked(findCompetition(slugOrId), now)
         THEN "CompetitionLocked"
    ELSE IF nameTaken(findCompetition(slugOrId).id, validateStringInput(name))
         THEN "NameTaken"
    ELSE "ok"

\* The join handler returns its response / awaits its next adapter call.
joinDone(r, slugOrId, name, result) ==
    /\ joinReq' = [joinReq EXCEPT ![r] = IdleJoin]
    /\ last' = [Response("join", slugOrId, result) EXCEPT !.name = name]

joinAwait(r, q) ==
    /\ joinReq' = [joinReq EXCEPT ![r] = q]
    /\ last' = NoResponse

JoinStart(r, slugOrId, name, portfolioInput) ==
    LET outcome == joinCheck(slugOrId, name, portfolioInput)
        sanitizedName == validateStringInput(name)
    IN  /\ joinReq[r].pc = "idle"
        /\ IF outcome = "ok"
           THEN joinAwait(r, [IdleJoin EXCEPT
                      !.pc = "validate", !.comp = slugOrId,
                      !.name = sanitizedName,
                      !.tickers = sanitizeTickers(portfolioInput),
                      !.shares = [k \in DOMAIN portfolioInput |->
                                    OrZero(portfolioInput[k].shares)],
                      !.i = 1])
           ELSE joinDone(r, slugOrId, name, outcome)
        /\ UNCHANGED <<now, competitions, participants, portfolio_stocks,
                       audit_log, price_history, priceCache, editReq,
                       refreshReq, yahoo>>

\* for (const t of sanitizedTickers) { isValid = await validateTicker(t) ... }
\* price is what fetchPrice resolved to for ticker i.
JoinValidate(r, price) ==
    LET q == joinReq[r]
        isValid == price # NULL
    IN  /\ q.pc = "validate"
        /\ IF price = Rejected
           THEN joinDone(r, q.comp, q.name, "InternalError")
           ELSE IF ~isValid
           THEN joinDone(r, q.comp, q.name, "InvalidTicker")
           ELSE IF q.i < Len(q.tickers)
           THEN joinAwait(r, [q EXCEPT !.i = q.i + 1])
           ELSE joinAwait(r, [q EXCEPT !.i = 1,
                      !.pc = IF findCompetition(q.comp).backfill_mode # 0
                             THEN "historical" ELSE "current"])
        /\ UNCHANGED <<now, competitions, participants, portfolio_stocks,
                       audit_log, price_history, priceCache, editReq,
                       refreshReq, yahoo>>

\* backfill: baselinePrice = await fetchHistoricalPrice(t, startDate)
JoinHistorical(r, price) ==
    LET q == joinReq[r]
    IN  /\ q.pc = "historical"
        /\ IF price = Rejected
           THEN joinDone(r, q.comp, q.name, "InternalError")
           ELSE IF price = NULL
           THEN joinDone(r, q.comp, q.name, "PriceUnavailable")
           ELSE joinAwait(r, [q EXCEPT !.pc = "current", !.baseline = price])
        /\ UNCHANGED <<now, competitions, participants, portfolio_stocks,
                       audit_log, price_history, priceCache, editReq,
                       refreshReq, yahoo>>

\* The rows the join handler writes once every price is fetched.
joinInsert(r, q, stockData) ==
    LET competition == findCompetition(q.comp)
        withShares == allocateShares(stockData, competition.budget)
        participantId == Len(participants) + 1
        stockIds == FreshStockIds(Len(stockData))
    IN  IF budgetExceeded(withShares, competition.budget)
        THEN /\ joinDone(r, q.comp, q.name, "BudgetExceeded")
             /\ UNCHANGED <<participants, portfolio_stocks, audit_log>>
        ELSE /\ participants' = Append(participants,
                    [id |-> participantId,
                     competition_id |-> competition.id,
                     name |-> q.name,
                     ticker |-> withShares[1].ticker,
                     percent_change |->
                         calculateWeightedPercentChange(withShares)])
             /\ portfolio_stocks' = portfolio_stocks \o
                    [k \in DOMAIN withShares |->
                        [id |-> stockIds[k],
                         participant_id |-> participantId,
                         ticker |-> withShares[k].ticker,
                         shares |-> withShares[k].shares,
                         baseline_price |-> withShares[k].baselinePrice,
                         current_price |-> withShares[k].currentPrice,
                         percent_change |-> withShares[k].percentChange]]
             /\ audit_log' = logAuditEvent(audit_log, competition.id,
                                           "participant_joined", q.name)
             /\ joinDone(r, q.comp, q.name, "ok")

\* currentPrice = await fetchPrice(t); after the last ticker the handler runs
\* to its end without another await.
JoinCurrent(r, price) ==
    LET q == joinReq[r]
        isBackfill == findCompetition(q.comp).backfill_mode # 0
        baselinePrice == IF isBackfill THEN q.baseline ELSE price
        stock == [ticker |-> q.tickers[q.i],
                  shares |-> q.shares[q.i],
                  baselinePrice |-> baselinePrice,
                  currentPrice |-> price,
                  percentChange |-> stockPercentChange(baselinePrice, price)]
        stockData == Append(q.stockData, stock)
    IN  /\ q.pc = "current"
        /\ IF price = Rejected
           THEN /\ joinDone(r, q.comp, q.name, "InternalError")
                /\ UNCHANGED <<participants, portfolio_stocks, audit_log>>
           ELSE IF q.i < Len(q.tickers)
           THEN /\ joinAwait(r, [q EXCEPT !.i = q.i + 1, !.baseline = NULL,
                                !.stockData = stockData,
                                !.pc = IF isBackfill THEN "historical"
                                       ELSE "current"])
                /\ UNCHANGED <<participants, portfolio_stocks, audit_log>>
           ELSE joinInsert(r, q, stockData)
        /\ UNCHANGED <<now, competitions, price_history, priceCache, editReq,
                       refreshReq, yahoo>>


\* --------------------------------------------- PUT /api/participants/:id
FoundParticipant(participantId) == participantId \in DOMAIN participants

\* The participant row joined with its competition row.
competitionOf(participantId) ==
    findCompetition(participants[participantId].competition_id)

\* An edit handler without the lock check.
editCheckOfLocked(participantId, portfolioInput) ==
    IF validationFails("edit", portfolioInput) THEN "ValidationError"
    ELSE IF ~FoundParticipant(participantId) THEN "NotFound"
    ELSE "ok"

editCheck(participantId, portfolioInput) ==
    IF validationFails("edit", portfolioInput) THEN "ValidationError"
    ELSE IF ~FoundParticipant(participantId) THEN "NotFound"
    ELSE IF isCompetitionLocked(competitionOf(participantId), now)
         THEN "CompetitionLocked"
    ELSE "ok"

tickersOf(rows) == {rows[k].ticker : k \in DOMAIN rows}

\* The edit handler returns its response / awaits its next adapter call.
editDone(r, participantId, result) ==
    /\ editReq' = [editReq EXCEPT ![r] = IdleEdit]
    /\ last' = Response("edit", participantId, result)

editAwait(r, q) ==
    /\ editReq' = [editReq EXCEPT ![r] = q]
    /\ last' = NoResponse

tickersToAdd(q) == SelectSeq(q.tickers, LAMBDA t : t \notin tickersOf(q.current))
tickersToUpdate(q) == SelectSeq(q.tickers, LAMBDA t : t \in tickersOf(q.current))
tickersToRemove(q) == tickersOf(q.current) \ Range(q.tickers)

\* updatedPortfolioMap.get(t) || 0
requestedShares(q, t) ==
    LET k == CHOOSE k \in DOMAIN q.tickers : q.tickers[k] = t
    IN  q.shares[k]

\* The end of the edit handler, from "If shares were not provided" on: it
\* runs without an await.  stocks is the stocks table it starts from.
editFinish(r, q, stocks) ==
    LET competition == competitionOf(q.participant)
        toUpdate == tickersToUpdate(q)
        toAdd == tickersToAdd(q)
        existing(t) ==
            q.current[CHOOSE k \in DOMAIN q.current : q.current[k].ticker = t]
        kept == [k \in DOMAIN toUpdate |->
                    [ticker |-> toUpdate[k],
                     shares |-> IF Truthy(requestedShares(q, toUpdate[k]))
                                THEN requestedShares(q, toUpdate[k])
                                ELSE existing(toUpdate[k]).shares,
                     baselinePrice |-> existing(toUpdate[k]).baseline_price]]
        needsAutoShares ==
            \E k \in DOMAIN (kept \o q.added) : (kept \o q.added)[k].shares = RZero
        allStockData == allocateShares(kept \o q.added, competition.budget)
        sharesOf(t) ==
            allStockData[CHOOSE k \in DOMAIN allStockData :
                            allStockData[k].ticker = t].shares
        mine(s) == s.participant_id = q.participant
        rolledBack ==
            SelectSeq(stocks, LAMBDA s : ~(mine(s) /\ s.ticker \in Range(toAdd)))
        reweighted ==
            [k \in DOMAIN stocks |->
                IF mine(stocks[k]) /\
                   (\/ stocks[k].ticker \in Range(toUpdate)
                    \/ (needsAutoShares /\ stocks[k].ticker \in Range(toAdd)))
                THEN [stocks[k] EXCEPT !.shares = sharesOf(stocks[k].ticker)]
                ELSE stocks[k]]
        written ==
            SelectSeq(reweighted,
                      LAMBDA s : ~(mine(s) /\ s.ticker \in tickersToRemove(q)))
        changed == Len(toAdd) > 0 \/ tickersToRemove(q) # {}
    IN  IF budgetExceeded(allStockData, competition.budget)
        THEN /\ portfolio_stocks' = rolledBack
             /\ editDone(r, q.participant, "BudgetExceeded")
             /\ UNCHANGED <<participants, audit_log>>
        ELSE /\ portfolio_stocks' = written
             /\ participants' =
                    [updateParticipantAggregate(participants, written,
                                                q.participant)
                        EXCEPT ![q.participant].ticker = q.tickers[1]]
             /\ audit_log' =
                    IF changed
                    THEN logAuditEvent(audit_log,
                             participants[q.participant].competition_id,
                             "portfolio_updated",
                             participants[q.participant].name)
                    ELSE audit_log
             /\ editDone(r, q.participant, "ok")

EditStart(r, participantId, portfolioInput) ==
    LET outcome == editCheck(participantId, portfolioInput)
        snapshot == StocksOf(portfolio_stocks, participantId)
        q == [IdleEdit EXCEPT
                !.pc = "validate", !.participant = participantId,
                !.tickers = sanitizeTickers(portfolioInput),
                !.shares = [k \in DOMAIN portfolioInput |->
                              OrZero(portfolioInput[k].shares)],
                !.current = [k \in DOMAIN snapshot |->
                               [id |-> snapshot[k].id,
                                ticker |-> snapshot[k].ticker,
                                shares |-> snapshot[k].shares,
                                baseline_price |-> snapshot[k].baseline_price]],
                !.i = 1]
    IN  /\ editReq[r].pc = "idle"
        /\ IF outcome # "ok"
           THEN /\ editDone(r, participantId, outcome)
                /\ UNCHANGED <<participants, portfolio_stocks, audit_log>>
           ELSE IF Len(tickersToAdd(q)) = 0
           THEN editFinish(r, q, portfolio_stocks)
           ELSE /\ editAwait(r, q)
                /\ UNCHANGED <<participants, portfolio_stocks, audit_log>>
        /\ UNCHANGED <<now, competitions, price_history, priceCache, joinReq,
                       refreshReq, yahoo>>

\* for (const t of tickersToAdd) { isValid = await validateTicker(t) ... }
EditValidate(r, price) ==
    LET q == editReq[r]
        isValid == price # NULL
    IN  /\ q.pc = "validate"
        /\ IF price = Rejected
           THEN editDone(r, q.participant, "InternalError")
           ELSE IF ~isValid
           THEN editDone(r, q.participant, "InvalidTicker")
           ELSE IF q.i < Len(tickersToAdd(q))
           THEN editAwait(r, [q EXCEPT !.i = q.i + 1])
           ELSE editAwait(r, [q EXCEPT !.i = 1, !.pc = "historical"])
        /\ UNCHANGED <<now, competitions, participants, portfolio_stocks,
                       audit_log, price_history, priceCache, joinReq,
                       refreshReq, yahoo>>

\* baselinePrice = await fetchHistoricalPrice(t, startDate), in both modes
EditHistorical(r, price) ==
    LET q == editReq[r]
        isBackfill == competitionOf(q.participant).backfill_mode # 0
    IN  /\ q.pc = "historical"
        /\ IF price = Rejected
           THEN editDone(r, q.participant, "InternalError")
           ELSE IF price = NULL /\ isBackfill
           THEN editDone(r, q.participant, "PriceUnavailable")
           ELSE IF price = NULL
           THEN editAwait(r, [q EXCEPT !.pc = "fallback"])
           ELSE editAwait(r, [q EXCEPT !.pc = "current", !.baseline = price])
        /\ UNCHANGED <<now, competitions, participants, portfolio_stocks,
                       audit_log, price_history, priceCache, joinReq,
                       refreshReq, yahoo>>

\* live mode, no historical price: baselinePrice = await fetchPrice(t)
EditFallback(r, price) ==
    LET q == editReq[r]
    IN  /\ q.pc = "fallback"
        /\ IF price = Rejected
           THEN editDone(r, q.participant, "InternalError")
           ELSE editAwait(r, [q EXCEPT !.pc = "current", !.baseline = price])
        /\ UNCHANGED <<now, competitions, participants, portfolio_stocks,
                       audit_log, price_history, priceCache, joinReq,
                       refreshReq, yahoo>>

\* currentPrice = await fetchPrice(t), then the INSERT of the new stock.  The
\* table's UNIQUE(participant_id, ticker) makes the INSERT throw when another
\* edit has added the ticker meanwhile; the handler then ends in an error
\* response, its earlier writes kept.
EditCurrent(r, price) ==
    LET q == editReq[r]
        t == tickersToAdd(q)[q.i]
        shares == requestedShares(q, t)
        row == [id |-> FreshStockIds(1)[1],
                participant_id |-> q.participant,
                ticker |-> t,
                shares |-> shares,
                baseline_price |-> q.baseline,
                current_price |-> price,
                percent_change |-> stockPercentChange(q.baseline, price)]
        uniqueViolated ==
            \E k \in DOMAIN portfolio_stocks :
                /\ portfolio_stocks[k].participant_id = q.participant
                /\ portfolio_stocks[k].ticker = t
        next == [q EXCEPT !.added = Append(q.added,
                              [ticker |-> t, shares |-> shares,
                               baselinePrice |-> q.baseline]),
                          !.baseline = NULL]
    IN  /\ q.pc = "current"
        /\ IF price = Rejected \/ uniqueViolated
           THEN /\ editDone(r, q.participant, "InternalError")
                /\ UNCHANGED <<participants, portfolio_stocks, audit_log>>
           ELSE IF q.i < Len(tickersToAdd(q))
           THEN /\ portfolio_stocks' = Append(portfolio_stocks, row)
                /\ editAwait(r, [next EXCEPT !.i = q.i + 1,
                                             !.pc = "historical"])
                /\ UNCHANGED <<participants, audit_log>>
           ELSE editFinish(r, next, Append(portfolio_stocks, row))
        /\ UNCHANGED <<now, competitions, price_history, priceCache, joinReq,
                       refreshReq, yahoo>>


\* ------------- GET /api/competitions/:slugOrId and refreshPricesIfNeeded
\* priceCache is a Map from competition id to the time of the last refresh.
\* priceCache.get(id) || 0
cacheGet(cache, id) == IF id \in DOMAIN cache THEN cache[id] ELSE 0

\* priceCache.set(id, t)
cacheSet(cache, id, t) ==
    [x \in DOMAIN cache \cup {id} |-> IF x = id THEN t ELSE cache[x]]

\* The staleness check: now - lastRefresh < CACHE_TTL_MS means still valid.
cacheValid(lastRefresh, t) == t - lastRefresh < CACHE_TTL_MS

\* The rows refreshPricesIfNeeded selects: the stocks of the competition's
\* participants, with the baseline price each has at that moment.
stocksOfCompetition(competitionId) ==
    LET rows == SelectSeq(portfolio_stocks,
                    LAMBDA s : participants[s.participant_id].competition_id
                               = competitionId)
    IN  [k \in DOMAIN rows |->
            [id |-> rows[k].id, participant_id |-> rows[k].participant_id,
             ticker |-> rows[k].ticker,
             baseline_price |-> rows[k].baseline_price]]

\* The detail response, built after the refresh from the competition row
\* the handler read at its start and the time as it is then.
detailResponse(competition, t, refresh, calls, total) ==
    [Response("detail", competition.id, "ok") EXCEPT
        !.refresh = refresh, !.calls = calls, !.total = total,
        !.is_locked = isCompetitionLocked(competition, t),
        !.can_join = ~isCompetitionLocked(competition, t),
        !.is_pick_window_open = isPickWindowOpen(competition, t)]

\* A refresh that writes no fetched price.
refreshStockDropped(stocks, stock, price) == stocks

\* A refresh that takes the stored current price as the baseline.
refreshStockRebased(stocks, stock, price) ==
    [k \in DOMAIN stocks |->
        IF stocks[k].id # stock.id THEN stocks[k]
        ELSE IF stocks[k].current_price = NULL
        THEN [stocks[k] EXCEPT !.baseline_price = price,
                               !.current_price = price,
                               !.percent_change = RZero]
        ELSE [stocks[k] EXCEPT !.baseline_price = stocks[k].current_price,
                               !.current_price = price,
                               !.percent_change =
                                   percentOf(stocks[k].current_price, price)]]

\* The UPDATE of one stock with a fetched price, by the stock's id.
refreshStock(stocks, stock, price) ==
    [k \in DOMAIN stocks |->
        IF stocks[k].id # stock.id THEN stocks[k]
        ELSE IF stock.baseline_price = NULL
        THEN [stocks[k] EXCEPT !.baseline_price = price,
                               !.current_price = price,
                               !.percent_change = RZero]
        ELSE [stocks[k] EXCEPT !.current_price = price,
                               !.percent_change =
                                   percentOf(stock.baseline_price, price)]]

RECURSIVE updateAggregates(_, _, _)
updateAggregates(rows, stocks, ids) ==
    IF ids = {} THEN rows
    ELSE LET p == CHOOSE p \in ids : TRUE
         IN  updateAggregates(updateParticipantAggregate(rows, stocks, p),
                              stocks, ids \ {p})

DetailStart(r, slugOrId) ==
    LET competition == findCompetition(slugOrId)
        lastRefresh == cacheGet(priceCache, competition.id)
        portfolioStocks == stocksOfCompetition(competition.id)
    IN  /\ refreshReq[r].pc = "idle"
        /\ IF ~Found(slugOrId)
           THEN /\ last' = Response("detail", slugOrId, "NotFound")
                /\ UNCHANGED <<refreshReq, priceCache>>
           ELSE IF cacheValid(lastRefresh, now)
           THEN /\ last' = detailResponse(competition, now, "cached", 0, 0)
                /\ UNCHANGED <<refreshReq, priceCache>>
           ELSE IF Len(portfolioStocks) = 0
           THEN /\ last' = detailResponse(competition, now, "refreshed", 0, 0)
                /\ priceCache' = cacheSet(priceCache, competition.id, now)
                /\ UNCHANGED refreshReq
           ELSE /\ refreshReq' = [refreshReq EXCEPT ![r] =
                      [IdleRefresh EXCEPT
                          !.pc = "fetch", !.comp = slugOrId,
                          !.finalized = competition.finalized,
                          !.startedAt = now, !.stocks = portfolioStocks,
                          !.i = 1]]
                /\ last' = NoResponse
                /\ UNCHANGED priceCache
        /\ UNCHANGED <<now, competitions, participants, portfolio_stocks,
                       audit_log, price_history, joinReq, editReq, yahoo>>

\* const price = await fetchPrice(stock.ticker), and the rest of the loop
\* body; after the last stock the function and the handler run to the end.
RefreshFetch(r, price) ==
    LET q == refreshReq[r]
        stock == q.stocks[q.i]
        skipped == price = NULL \/ price = Rejected
        stocks == IF skipped THEN portfolio_stocks
                  ELSE refreshStock(portfolio_stocks, stock, price)
        toUpdate == IF skipped THEN q.toUpdate
                    ELSE q.toUpdate \cup {stock.participant_id}
        competition == [findCompetition(q.comp) EXCEPT !.finalized = q.finalized]
    IN  /\ q.pc = "fetch"
        /\ portfolio_stocks' = stocks
        /\ price_history' =
              IF skipped THEN price_history
              ELSE Append(price_history,
                          [ticker |-> stock.ticker, price |-> price])
        /\ IF price = Rejected
           THEN /\ refreshReq' = [refreshReq EXCEPT ![r] = IdleRefresh]
                /\ last' = [Response("detail", q.comp, "InternalError") EXCEPT
                               !.refresh = "failed", !.calls = q.calls + 1,
                               !.total = Len(q.stocks)]
                /\ UNCHANGED <<participants, priceCache>>
           ELSE IF q.i < Len(q.stocks)
           THEN /\ refreshReq' = [refreshReq EXCEPT ![r] =
                      [q EXCEPT !.i = q.i + 1, !.toUpdate = toUpdate,
                                !.calls = q.calls + 1]]
                /\ last' = NoResponse
                /\ UNCHANGED <<participants, priceCache>>
           ELSE /\ participants' = updateAggregates(participants, stocks, toUpdate)
                /\ priceCache' = cacheSet(priceCache, q.comp, q.startedAt)
                /\ last' = detailResponse(competition, now, "refreshed",
                                           q.calls + 1, Len(q.stocks))
                /\ refreshReq' = [refreshReq EXCEPT ![r] = IdleRefresh]
        /\ UNCHANGED <<now, competitions, audit_log, joinReq, editReq, yahoo>>


\* ------------------------- GET /api/competitions/:slugOrId/leaderboard
\* The names of the model in the order of SQLite's default (BINARY)
\* collation, which compares the bytes of the UTF-8 encoding.
nameOrder == <<"ALICE", "Alice", "Bob", "Lee", "ZOË", "Zoë", "alice">>

nameBefore(a, b) ==
    \E i, j \in DOMAIN nameOrder :
        nameOrder[i] = a /\ nameOrder[j] = b /\ i < j

\* An ordering that puts the rows without aggregate first.
beforeNullsFirst(a, b) ==
    IF a.percent_change = b.percent_change THEN nameBefore(a.name, b.name)
    ELSE IF a.percent_change = NULL THEN TRUE
    ELSE IF b.percent_change = NULL THEN FALSE
    ELSE RLt(b.percent_change, a.percent_change)

\* ORDER BY percent_change DESC NULLS LAST, name ASC: row a sorts before b
before(a, b) ==
    IF a.percent_change = b.percent_change THEN nameBefore(a.name, b.name)
    ELSE IF a.percent_change = NULL THEN FALSE
    ELSE IF b.percent_change = NULL THEN TRUE
    ELSE RLt(b.percent_change, a.percent_change)

RECURSIVE insertRow(_, _)
insertRow(sorted, row) ==
    IF sorted = <<>> THEN <<row>>
    ELSE IF before(row, Head(sorted)) THEN <<row>> \o sorted
    ELSE <<Head(sorted)>> \o insertRow(Tail(sorted), row)

RECURSIVE orderBy(_)
orderBy(rows) ==
    IF rows = <<>> THEN <<>>
    ELSE insertRow(orderBy(Tail(rows)), Head(rows))

\* participants.map((p, index) => ({ rank: index + 1, ...p }))
leaderboard(competitionId) ==
    LET sorted == orderBy(ParticipantsOf(competitionId))
    IN  [index \in DOMAIN sorted |->
            [rank |-> index, id |-> sorted[index].id,
             name |-> sorted[index].name,
             percent_change |-> sorted[index].percent_change]]

Leaderboard(slugOrId) ==
    /\ last' = IF ~Found(slugOrId)
               THEN Response("leaderboard", slugOrId, "NotFound")
               ELSE [Response("leaderboard", findCompetition(slugOrId).id, "ok")
                        EXCEPT !.leaderboard =
                            leaderboard(findCompetition(slugOrId).id)]
    /\ UNCHANGED <<now, competitions, participants, portfolio_stocks,
                   audit_log, price_history, priceCache, joinReq, editReq,
                   refreshReq, yahoo>>

\* ------------------------------------------------------------ request inputs
Prices == {R(10), R(20)}

\* What an adapter call can come to: a price, null (unknown), or no result.
AdapterOutcomes == Prices \cup {NULL, Rejected}

\* Pick windows a create request may carry: one starting now or later, one in
\* the past, one whose end is not after its start.
Windows ==
    {[start |-> StartTime, end |-> StartTime + 1],
     [start |-> StartTime - 2, end |-> StartTime - 1],
     [start |-> StartTime + 1, end |-> StartTime + 1]}

Stock(ticker, shares) == [ticker |-> ticker, shares |-> shares]

\* Slugs or ids a request may name: those of max competitions (participants)
\* and one that resolves to nothing.
SlugOrIds(max) == 1..(max + 1)

\* ------------------------------------------------ specification SpecLock
\* Finalize and unfinalize requests on live and backfill competitions, with
\* and without participants.
NextLock ==
    \/ /\ Len(competitions) < LockComps
       /\ \E w \in Windows, b \in BOOLEAN :
             CreateCompetition(w.start, w.end, b, NULL)
    \/ /\ RoomForAudit(LockAudit)
       /\ \E c \in SlugOrIds(LockComps) : Finalize(c)
    \/ /\ RoomForAudit(LockAudit)
       /\ \E c \in SlugOrIds(LockComps) : Unfinalize(c)
    \/ /\ RoomForParticipant(LockParticipants)
       /\ RoomForAudit(LockAudit)
       /\ \E c \in SlugOrIds(LockComps) :
             JoinStart(1, c, "Alice", <<Stock("AAA", RZero)>>)
    \/ \E p \in {R(10), NULL, Rejected} : JoinValidate(1, p)
    \/ \E p \in {R(10), NULL, Rejected} : JoinHistorical(1, p)
    \/ \E p \in {R(10), NULL, Rejected} : JoinCurrent(1, p)

SpecLock == Init /\ [][NextLock]_vars

\* ------------------------------------------------ specification SpecGate
\* Join and edit requests, valid and invalid, against live competitions
\* before and after the end of their pick window and against backfill
\* competitions, finalized or not.  One handler of each kind at a time.
GatePortfolios ==
    {<<>>, <<Stock("AAA", RZero)>>, <<Stock("AAA", R(1)), Stock("BBB", R(1))>>}

NextGate ==
    \/ Tick(StartTime + GateTicks)
    \/ /\ Len(competitions) < GateComps
       /\ \E b \in BOOLEAN :
             CreateCompetition(StartTime, StartTime + 1, b, NULL)
    \/ /\ RoomForAudit(GateAudit)
       /\ \E c \in SlugOrIds(GateComps) : Finalize(c)
    \/ /\ RoomForAudit(GateAudit)
       /\ \E c \in SlugOrIds(GateComps) : Unfinalize(c)
    \/ /\ RoomForParticipant(GateParticipants)
       /\ RoomForAudit(GateAudit)
       /\ \E c \in SlugOrIds(GateComps), pf \in GatePortfolios :
             JoinStart(1, c, "Alice", pf)
    \/ \E p \in {R(10), NULL} : JoinValidate(1, p)
    \/ \E p \in {R(10), NULL} : JoinHistorical(1, p)
    \/ \E p \in {R(10), NULL} : JoinCurrent(1, p)
    \/ /\ RoomForAudit(GateAudit)
       /\ \E id \in 1..(GateParticipants + 1), pf \in GatePortfolios :
             EditStart(1, id, pf)
    \/ \E p \in {R(10), NULL} : EditValidate(1, p)
    \/ \E p \in {R(10), NULL} : EditHistorical(1, p)
    \/ \E p \in {R(10), NULL} : EditFallback(1, p)
    \/ \E p \in {R(10), NULL} : EditCurrent(1, p)

SpecGate == Init /\ [][NextGate]_vars

\* ----------------------------------------------- claims on SpecGate
\* The step is the first step of a join handler and ends it with a response:
\* no handler in progress changes and the response is a join response.
JoinRefused == last'.op = "join" /\ joinReq' = joinReq

\* The step is the first step of join handler r and suspends it on its first
\* adapter call.
JoinSuspended(r) == joinReq[r].pc = "idle" /\ joinReq'[r].pc # "idle"

\* The step is the first step of an edit handler and ends it with a response
\* (an edit that adds no ticker runs to its end without an adapter call).
EditAnswered == last'.op = "edit" /\ editReq' = editReq

EditSuspended(r) == editReq[r].pc = "idle" /\ editReq'[r].pc # "idle"

\* The responses of a handler that ended before its lock check.
BeforeLockCheck == {"ValidationError", "NotFound"}

picks == <<participants, portfolio_stocks, audit_log>>

\* C1: a join or edit request that reaches the handler's lock check while the
\* competition is locked is answered CompetitionLocked and changes no
\* participant, no portfolio stock and no audit event; one that reaches it
\* while the competition is not locked is never answered CompetitionLocked.
C1_LockedRequestRejected ==
    [][/\ (JoinRefused /\ last'.result \notin BeforeLockCheck) =>
            IF isCompetitionLocked(findCompetition(last'.comp), now)
            THEN last'.result = "CompetitionLocked" /\ UNCHANGED picks
            ELSE last'.result # "CompetitionLocked"
       /\ \A r \in JoinSlots :
            JoinSuspended(r) =>
                ~isCompetitionLocked(findCompetition(joinReq'[r].comp), now)
       /\ (EditAnswered /\ last'.result \notin BeforeLockCheck) =>
            IF isCompetitionLocked(competitionOf(last'.comp), now)
            THEN last'.result = "CompetitionLocked" /\ UNCHANGED picks
            ELSE last'.result # "CompetitionLocked"
       /\ \A r \in EditSlots :
            EditSuspended(r) =>
                ~isCompetitionLocked(competitionOf(editReq'[r].participant), now)
       /\ (last'.op \in {"join", "edit"} /\ last'.result = "CompetitionLocked")
            => (JoinRefused \/ EditAnswered)]_vars

\* An edit request for a participant of a live competition whose pick window
\* has ended was just answered CompetitionLocked.
C1_Witness ==
    /\ last.op = "edit" /\ last.result = "CompetitionLocked"
    /\ competitionOf(last.comp).backfill_mode = 0
    /\ now > competitionOf(last.comp).pick_window_end

\* ----------------------------------------------- specification SpecNames
\* Join requests, one handler at a time, under names that differ in letter
\* case only, in one competition and in two.
NextNames ==
    \/ /\ Len(competitions) < NamesComps
       /\ CreateCompetition(StartTime, StartTime + 1, TRUE, NULL)
    \/ /\ RoomForAudit(NamesAudit)
       /\ \E c \in SlugOrIds(NamesComps) : Finalize(c)
    \/ /\ RoomForParticipant(NamesParticipants)
       /\ RoomForAudit(NamesAudit)
       /\ \E c \in SlugOrIds(NamesComps), name \in NameInputs,
             pf \in {<<>>, <<Stock("AAA", RZero)>>} :
             JoinStart(1, c, name, pf)
    \/ \E p \in {R(10), NULL} : JoinValidate(1, p)
    \/ \E p \in {R(10), NULL} : JoinHistorical(1, p)
    \/ \E p \in {R(10), NULL} : JoinCurrent(1, p)

SpecNames == Init /\ [][NextNames]_vars

\* ----------------------------------------------- claims on SpecNames
\* Letter case folded as Unicode defines it, on the names of the model.
ignoringCase(v) ==
    CASE v \in {"Alice", "ALICE", "alice"} -> "alice"
      [] v = "Bob" -> "bob"
      [] v \in {"Zoë", "ZOË"} -> "zoë"
      [] OTHER -> v

\* A participant stored in competition c has name n, letter case ignored.
nameStored(c, n) ==
    \E k \in DOMAIN participants :
        /\ participants[k].competition_id = c
        /\ ignoringCase(participants[k].name) = ignoringCase(n)

\* C4: a join request (valid, for a competition that exists and is not
\* locked) whose display name equals, ignoring letter case, the name of a
\* participant stored in the same competition is answered NameTaken and
\* creates no participant, no portfolio stock and no audit event; a name
\* stored in another competition only is not answered NameTaken.
C4_DuplicateNameRefused ==
    [][/\ (JoinRefused /\ last'.result \in {"NameTaken", "CompetitionLocked"}) =>
            LET c == last'.comp
                n == validateStringInput(last'.name)
                locked == isCompetitionLocked(findCompetition(c), now)
            IN  /\ (~locked /\ nameStored(c, n)) =>
                      last'.result = "NameTaken" /\ UNCHANGED picks
                /\ last'.result = "NameTaken" => nameStored(c, n)
       /\ \A r \in JoinSlots :
            JoinSuspended(r) => ~nameStored(joinReq'[r].comp, joinReq'[r].name)
      ]_vars

\* ------------------------------------------------ specification SpecRace
\* Two join handlers and an edit handler in progress at the same time, each
\* suspended at its adapter calls while finalize requests are served and the
\* clock passes the end of the pick window.
NextRace ==
    \/ Tick(StartTime + RaceTicks)
    \/ /\ Len(competitions) < RaceComps
       /\ \E b \in BOOLEAN :
             CreateCompetition(StartTime, StartTime + 1, b, NULL)
    \/ /\ RoomForAudit(RaceAudit)
       /\ \E c \in 1..RaceComps : Finalize(c)
    \/ /\ RoomForParticipant(RaceParticipants)
       /\ RoomForAudit(RaceAudit)
       /\ \E r \in JoinSlots, c \in 1..RaceComps, name \in {"Alice", "ALICE"} :
             JoinStart(r, c, name, <<Stock("AAA", R(1))>>)
    \/ \E r \in JoinSlots, p \in {R(10), NULL} : JoinValidate(r, p)
    \/ \E r \in JoinSlots, p \in {R(10), NULL} : JoinHistorical(r, p)
    \/ \E r \in JoinSlots, p \in {R(10), NULL} : JoinCurrent(r, p)
    \/ /\ RoomForAudit(RaceAudit)
       /\ \E id \in 1..RaceParticipants,
             pf \in {<<Stock("BBB", R(1))>>, <<Stock("AAA", R(2))>>} :
             EditStart(1, id, pf)
    \/ \E p \in {R(10), NULL} : EditValidate(1, p)
    \/ \E p \in {R(10), NULL} : EditHistorical(1, p)
    \/ \E p \in {R(10), NULL} : EditFallback(1, p)
    \/ \E p \in {R(10), NULL} : EditCurrent(1, p)

SpecRace == Init /\ [][NextRace]_vars

\* ----------------------------------------------- claims on SpecRace
\* The picks of competition c: its participants and, of each of their
\* portfolio stocks, the ticker and the shares (prices are not picks).
picksOf(rows, stocks, c) ==
    LET entrants == SelectSeq(rows, LAMBDA p : p.competition_id = c)
        ids == {entrants[k].id : k \in DOMAIN entrants}
        held == SelectSeq(stocks, LAMBDA s : s.participant_id \in ids)
    IN  <<[k \in DOMAIN entrants |-> <<entrants[k].id, entrants[k].name>>],
          [k \in DOMAIN held |-> <<held[k].participant_id, held[k].ticker,
                                   held[k].shares>>]>>

\* C3: picks are frozen once a competition is locked: no step taken while a
\* competition is locked inserts, removes or reweights a participant or a
\* portfolio stock of that competition, also when the step belongs to a join
\* or edit handler that passed its lock check before the competition locked.
C3_PicksFrozenWhileLocked ==
    [][\A c \in DOMAIN competitions :
        isCompetitionLocked(competitions[c], now) =>
            picksOf(participants', portfolio_stocks', c)
                = picksOf(participants, portfolio_stocks, c)]_vars

\* C5: no two participants of one competition have display names that are
\* equal ignoring letter case, also when two join handlers for the competition
\* are suspended between their name check and their insert.
C5_NamesUniquePerCompetition ==
    \A j, k \in DOMAIN participants :
        (/\ j # k
         /\ participants[j].competition_id = participants[k].competition_id)
        => ignoringCase(participants[j].name) # ignoringCase(participants[k].name)

\* ---------------------------------------------- specification SpecLocked
\* isCompetitionLocked as a function of its argument and the clock: the
\* competition record is drawn from every combination of mode and finalized
\* flag its parameter type admits (the handlers never store finalized = 1 on
\* a live competition), the clock starts before, at or after the pick window,
\* and the detail handler applies the function.
InitLocked ==
    /\ now \in (StartTime - 1)..(StartTime + 1)
    /\ \E mode \in {0, 1}, flag \in {0, 1}, w \in {1, 2} :
          competitions = <<[id |-> 1,
                            pick_window_start |-> StartTime,
                            pick_window_end |-> StartTime + w,
                            backfill_mode |-> mode,
                            finalized |-> flag,
                            budget |-> NULL]>>
    /\ participants = <<>>
    /\ portfolio_stocks = <<>>
    /\ audit_log = <<>>
    /\ price_history = <<>>
    /\ priceCache = <<>>
    /\ yahoo = YahooIdle
    /\ joinReq = [r \in JoinSlots |-> IdleJoin]
    /\ editReq = [r \in EditSlots |-> IdleEdit]
    /\ refreshReq = [r \in RefreshSlots |-> IdleRefresh]
    /\ last = NoResponse

NextLocked ==
    \/ Tick(StartTime + LockedTicks)
    \/ DetailStart(1, 1)

SpecLocked == InitLocked /\ [][NextLocked]_vars

\* ---------------------------------------------- claims on SpecLocked
\* C2: isLocked is true exactly when the competition is a finalized backfill
\* competition or a live competition whose pick_window_end has passed: for a
\* backfill competition it is the finalized flag at every time, for a live
\* competition it is false at every time up to pick_window_end and true at
\* every later time, whatever the finalized flag.
C2_LockedExactly ==
    (last.op = "detail" /\ last.result = "ok") =>
        LET competition == competitions[last.comp]
            backfill == competition.backfill_mode = 1
            live == competition.backfill_mode = 0
        IN  /\ last.is_locked <=>
                  \/ backfill /\ competition.finalized = 1
                  \/ live /\ now > competition.pick_window_end
            /\ backfill => (last.is_locked <=> competition.finalized = 1)
            /\ (live /\ now <= competition.pick_window_end) => ~last.is_locked
            /\ (live /\ now > competition.pick_window_end) => last.is_locked

\* A live competition carrying finalized = 1 was reported not locked at the
\* very end of its pick window.
C2_Witness ==
    /\ last.op = "detail" /\ ~last.is_locked
    /\ competitions[1].backfill_mode = 0
    /\ competitions[1].finalized = 1
    /\ now = competitions[1].pick_window_end

\* --------------------------------------------- specification SpecRefresh
\* Detail requests, each running refreshPricesIfNeeded, on a competition
\* with no, one and two portfolio stocks, over more than one TTL.
NextRefresh ==
    \/ Tick(StartTime + RefreshTicks)
    \/ /\ Len(competitions) < RefreshComps
       /\ CreateCompetition(StartTime, StartTime + 1, FALSE, NULL)
    \/ /\ RoomForParticipant(RefreshParticipants)
       /\ \E c \in 1..RefreshComps,
             pf \in {<<Stock("AAA", R(1))>>,
                     <<Stock("AAA", R(1)), Stock("BBB", R(1))>>} :
             JoinStart(1, c, "Alice", pf)
    \/ JoinValidate(1, R(10))
    \/ \E p \in {R(10), NULL} : JoinCurrent(1, p)
    \/ /\ Len(price_history) < RefreshHistory
       /\ \E c \in SlugOrIds(RefreshComps) : DetailStart(1, c)
    \/ \E p \in AdapterOutcomes : RefreshFetch(1, p)

SpecRefresh == Init /\ [][NextRefresh]_vars

\* --------------------------------------------- claims on SpecRefresh
\* The step is the first step of a detail handler and ends it with a response.
DetailAnswered == last'.op = "detail" /\ refreshReq' = refreshReq

\* The step is the first step of detail handler r and suspends it on the
\* first adapter call of its refresh.
RefreshSuspended(r) == refreshReq[r].pc = "idle" /\ refreshReq'[r].pc # "idle"

\* The step is the last step of the refresh of detail handler r.
RefreshEnded(r) == refreshReq[r].pc # "idle" /\ refreshReq'[r].pc = "idle"

fresh(c) == now - cacheGet(priceCache, c) < CACHE_TTL_MS

\* C9: a refresh invoked for a competition while now - lastRefresh < TTL makes
\* no adapter call, writes no portfolio stock, participant or price-history
\* record and leaves the last-refresh timestamp as it is; a refresh invoked
\* when now - lastRefresh >= TTL, or never refreshed, requests a price for
\* every portfolio stock of the competition.
C9_RefreshGatedByTTL ==
    [][/\ (DetailAnswered /\ last'.result = "ok") =>
            IF fresh(last'.comp)
            THEN /\ last'.calls = 0
                 /\ UNCHANGED <<portfolio_stocks, participants, price_history,
                                priceCache>>
            ELSE stocksOfCompetition(last'.comp) = <<>>
       /\ \A r \in RefreshSlots :
            /\ RefreshSuspended(r) =>
                 /\ ~fresh(refreshReq'[r].comp)
                 /\ refreshReq'[r].stocks =
                        stocksOfCompetition(refreshReq'[r].comp)
            /\ RefreshEnded(r) => last'.calls = Len(refreshReq[r].stocks)
      ]_vars

\* C10: every refresh that passes the staleness check sets the competition's
\* last-refresh timestamp, whether all, some or none of its price requests
\* succeeded and also when the competition has no portfolio stock, so that a
\* request within TTL of it makes no adapter call.
C10_RefreshStampsAlways ==
    [][/\ (DetailAnswered /\ last'.result = "ok" /\ ~fresh(last'.comp)) =>
            /\ last'.comp \in DOMAIN priceCache'
            /\ priceCache'[last'.comp] = now
       /\ \A r \in RefreshSlots :
            RefreshEnded(r) =>
                /\ refreshReq[r].comp \in DOMAIN priceCache'
                /\ priceCache'[refreshReq[r].comp] = refreshReq[r].startedAt
      ]_vars

\* ------------------------------------------------ overlapping refreshes
\* One live competition, one participant with one stock whose price may be
\* unknown at join, a reweighting edit, and two detail requests that can both
\* be refreshing at once.
NextOverlap ==
    \/ Tick(StartTime + OverlapTicks)
    \/ /\ Len(competitions) < OverlapComps
       /\ CreateCompetition(StartTime, StartTime + 1, FALSE, NULL)
    \/ /\ RoomForParticipant(OverlapParticipants)
       /\ \E c \in 1..OverlapComps :
             JoinStart(1, c, "Alice", <<Stock("AAA", R(1))>>)
    \/ JoinValidate(1, R(10))
    \/ \E p \in {R(10), NULL} : JoinCurrent(1, p)
    \/ \E id \in 1..OverlapParticipants :
          EditStart(1, id, <<Stock("AAA", R(2))>>)
    \/ /\ Len(price_history) < OverlapHistory
       /\ \E r \in RefreshSlots, c \in 1..OverlapComps : DetailStart(r, c)
    \/ \E r \in RefreshSlots, p \in Prices \cup {NULL} : RefreshFetch(r, p)

SpecOverlap == Init /\ [][NextOverlap]_vars

\* C13: the baseline price of a stock record is fixed once it is not null: no
\* step (of a refresh, of two overlapping refreshes, of an edit that keeps or
\* reweights the ticker) changes it while the record exists.
C13_BaselineFixedOnceSet ==
    [][\A j \in DOMAIN portfolio_stocks, k \in DOMAIN portfolio_stocks' :
          (/\ portfolio_stocks'[k].id = portfolio_stocks[j].id
           /\ portfolio_stocks[j].baseline_price # NULL)
          => portfolio_stocks'[k].baseline_price =
                portfolio_stocks[j].baseline_price]_vars

\* ------------------------------------------------ specification SpecValue
\* The database of a deployment that started on the first revision: the one
\* participant of its live competition was stored with a ticker and a current
\* price only, and the start-up migration copied the row into
\* portfolio_stocks.  A backfill competition without budget has been created.
InitMigrated ==
    /\ now = StartTime
    /\ competitions = <<[id |-> 1,
                         pick_window_start |-> StartTime,
                         pick_window_end |-> StartTime + 1,
                         backfill_mode |-> 0,
                         finalized |-> 0,
                         budget |-> NULL],
                        [id |-> 2,
                         pick_window_start |-> StartTime,
                         pick_window_end |-> StartTime + 1,
                         backfill_mode |-> 1,
                         finalized |-> 0,
                         budget |-> NULL]>>
    /\ participants = <<[id |-> 1, competition_id |-> 1, name |-> "Lee",
                         ticker |-> "AAA", percent_change |-> NULL]>>
    /\ \E currentPrice \in {NULL, R(10)} :
          portfolio_stocks = <<[id |-> 1, participant_id |-> 1,
                                ticker |-> "AAA", shares |-> R(1),
                                baseline_price |-> NULL,
                                current_price |-> currentPrice,
                                percent_change |-> NULL]>>
    /\ audit_log = <<>>
    /\ price_history = <<>>
    /\ priceCache = <<>>
    /\ yahoo = YahooIdle
    /\ joinReq = [r \in JoinSlots |-> IdleJoin]
    /\ editReq = [r \in EditSlots |-> IdleEdit]
    /\ refreshReq = [r \in RefreshSlots |-> IdleRefresh]
    /\ last = NoResponse

\* Portfolios with explicit share counts; nothing in the handlers restricts
\* the sign of a share count.
ValuePortfolios ==
    {<<Stock("AAA", R(3)), Stock("BBB", R(1))>>,
     <<Stock("BBB", R(1)), Stock("AAA", R(3))>>,
     <<Stock("AAA", R(1)), Stock("BBB", R(-1))>>}

\* Joins into the backfill competition (the name check admits one Alice),
\* edits that reweight or drop stocks, and one refresh per competition (the
\* clock stands still, so a finished refresh stays fresh).
NextValue ==
    \/ \E pf \in ValuePortfolios : JoinStart(1, 2, "Alice", pf)
    \/ JoinValidate(1, R(10))
    \/ \E p \in Prices : JoinHistorical(1, p)
    \/ \E p \in Prices \cup {NULL} : JoinCurrent(1, p)
    \/ \E id \in DOMAIN participants :
          EditStart(1, id, <<Stock("AAA", R(2))>>)
    \/ \E c \in DOMAIN competitions : DetailStart(1, c)
    \/ \E p \in Prices \cup {NULL} : RefreshFetch(1, p)

SpecValue == InitMigrated /\ [][NextValue]_vars

\* What updateParticipantAggregate hands to calculateWeightedPercentChange
\* for a participant: its stocks that have a percent change.
pricedInput(participantId) ==
    LET priced == SelectSeq(StocksOf(portfolio_stocks, participantId),
                            LAMBDA s : s.percent_change # NULL)
    IN  [k \in DOMAIN priced |->
            [shares |-> priced[k].shares,
             baselinePrice |-> priced[k].baseline_price,
             percentChange |-> priced[k].percent_change]]

initialValue(s) == RMul(s.shares, OrZero(s.baselinePrice))
totalInvestment(stocks) == SumSeq(initialValue, stocks)

Orderings(stocks) ==
    {[i \in DOMAIN stocks |-> stocks[f[i]]] :
        f \in {g \in [DOMAIN stocks -> DOMAIN stocks] :
                  Range(g) = DOMAIN stocks}}

\* C14: for a non-empty portfolio whose total initial investment T (the sum
\* of shares * baseline price, a null baseline counting as 0) is not zero,
\* calculateWeightedPercentChange is the sum of the percent changes weighted
\* by (shares * baseline) / T, the weights sum to 1, and the result does not
\* depend on the order of the stocks.
C14_WeightedAverage ==
    \A p \in DOMAIN participants :
        LET stocks == pricedInput(p)
            T == totalInvestment(stocks)
            weight(s) == RDiv(initialValue(s), T)
            term(s) == RMul(weight(s), s.percentChange)
        IN  (stocks # <<>> /\ T # RZero) =>
               /\ calculateWeightedPercentChange(stocks) = SumSeq(term, stocks)
               /\ SumSeq(weight, stocks) = R(1)
               /\ \A o \in Orderings(stocks) :
                     calculateWeightedPercentChange(o) =
                        calculateWeightedPercentChange(stocks)

\* A join stored the aggregate of 3 shares that doubled and 1 share that did
\* not move: 75 percent, where the plain average is 50.
C14_Witness ==
    \E p \in DOMAIN participants :
        /\ Len(pricedInput(p)) = 2
        /\ totalInvestment(pricedInput(p)) = R(40)
        /\ participants[p].percent_change = R(75)

\* C15: when the total initial investment T of a non-empty portfolio is
\* zero, calculateWeightedPercentChange is the plain mean of the percent
\* changes, a number (nothing is divided by zero); and a participant none of
\* whose stocks has a percent change gets the aggregate null when it is
\* recomputed.
C15_ZeroInvestmentFallsBack ==
    /\ [](\A p \in DOMAIN participants :
            LET stocks == pricedInput(p)
                plain(s) == s.percentChange
                mean == calculateWeightedPercentChange(stocks)
            IN  (stocks # <<>> /\ totalInvestment(stocks) = RZero) =>
                   /\ mean[2] # 0
                   /\ RMul(mean, R(Len(stocks))) = SumSeq(plain, stocks))
    /\ [][\A p \in DOMAIN participants :
            (/\ last'.op = "edit" /\ last'.result = "ok" /\ last'.comp = p
             /\ pricedInput(p)' = <<>>)
            => participants'[p].percent_change = NULL]_vars

\* Alice holds 1 share that doubled and -1 share that did not move, bought at
\* the same price: T = 0 and her aggregate is the mean, 50; Lee, whose only
\* stock has no percent change, was reweighted and has the aggregate null.
C15_Witness ==
    /\ \E p \in DOMAIN participants :
          /\ Len(pricedInput(p)) = 2
          /\ totalInvestment(pricedInput(p)) = RZero
          /\ participants[p].percent_change = R(50)
    /\ \E p \in DOMAIN participants :
          /\ pricedInput(p) = <<>>
          /\ participants[p].percent_change = NULL
          /\ \E k \in DOMAIN portfolio_stocks :
                /\ portfolio_stocks[k].participant_id = p
                /\ portfolio_stocks[k].shares = R(2)

\* C16: a stock's percent change computed from a baseline that is null or
\* zero, or from a current price that is null, is unknown (null), never a
\* number: every stored stock without a usable baseline or without a current
\* price has the percent change null.
C16_UnknownPercentChange ==
    \A k \in DOMAIN portfolio_stocks :
        (\/ ~Truthy(portfolio_stocks[k].baseline_price)
         \/ portfolio_stocks[k].current_price = NULL)
        => portfolio_stocks[k].percent_change = NULL

\* C23: in every reachable state every stored portfolio stock has a share
\* count greater than zero, whatever share counts the requests supplied.
C23_SharesPositive ==
    \A k \in DOMAIN portfolio_stocks : RLt(RZero, portfolio_stocks[k].shares)

\* -------------------------------------------- specification SpecPortfolio
\* Budget of the competition of SpecPortfolio.
PortfolioBudget == R(100)

\* Join requests: tickers without share counts (shares 0) and portfolios
\* with share counts, within and beyond the budget at a baseline of 10.
JoinPortfolios ==
    {<<Stock("AAA", R(0)), Stock("BBB", R(0))>>,
     <<Stock("AAA", R(5))>>,
     <<Stock("AAA", R(20))>>}

\* Edit requests: tickers only, dropping or adding stocks, and portfolios
\* with share counts that add one or two stocks, within and beyond the
\* budget.
EditPortfolios ==
    {<<Stock("AAA", R(0))>>,
     <<Stock("AAA", R(0)), Stock("BBB", R(0)), Stock("CCC", R(0))>>,
     <<Stock("AAA", R(5)), Stock("BBB", R(1)), Stock("CCC", R(1))>>,
     <<Stock("AAA", R(5)), Stock("BBB", R(1)), Stock("CCC", R(20))>>}

\* One backfill competition with a budget: joins and edits whose historical
\* prices may be unavailable.
NextPortfolio ==
    \/ /\ Len(competitions) < PortfolioComps
       /\ CreateCompetition(StartTime, StartTime + 1, TRUE, PortfolioBudget)
    \/ /\ RoomForParticipant(PortfolioParticipants)
       /\ \E c \in 1..PortfolioComps, pf \in JoinPortfolios :
             JoinStart(1, c, "Alice", pf)
    \/ JoinValidate(1, R(10))
    \/ \E p \in {R(10), NULL} : JoinHistorical(1, p)
    \/ \E p \in Prices : JoinCurrent(1, p)
    \/ /\ RoomForAudit(PortfolioAudit)
       /\ \E id \in 1..PortfolioParticipants, pf \in EditPortfolios :
             EditStart(1, id, pf)
    \/ EditValidate(1, R(10))
    \/ \E p \in {R(10), NULL} : EditHistorical(1, p)
    \/ \E p \in Prices : EditCurrent(1, p)

SpecPortfolio == Init /\ [][NextPortfolio]_vars

Quiescent ==
    /\ \A r \in JoinSlots : joinReq[r].pc = "idle"
    /\ \A r \in EditSlots : editReq[r].pc = "idle"
    /\ \A r \in RefreshSlots : refreshReq[r].pc = "idle"

\* C17: whenever no request is in progress, the stored aggregate percent
\* change of every participant is calculateWeightedPercentChange of the
\* participant's stored stocks that have a percent change, and null when
\* there is none.
C17_AggregateMatchesPortfolio ==
    Quiescent =>
        \A p \in DOMAIN participants :
            participants[p].percent_change =
                IF pricedInput(p) = <<>> THEN NULL
                ELSE calculateWeightedPercentChange(pricedInput(p))

\* The edit in slot r answers with result in this step.
EditEnds(r, result) ==
    /\ editReq[r].pc # "idle" /\ editReq'[r].pc = "idle"
    /\ last'.op = "edit" /\ last'.result = result

\* The stocks of the participant of the edit in slot r, as the handler read
\* them at its start.
asRead(r, stocks) ==
    LET mine == StocksOf(stocks, editReq[r].participant)
    IN  [k \in DOMAIN mine |->
            [id |-> mine[k].id, ticker |-> mine[k].ticker,
             shares |-> mine[k].shares,
             baseline_price |-> mine[k].baseline_price]]
        = editReq[r].current

\* Every stock of participant p in the next state holds an equal slice of
\* the budget.
evenSlices(p) ==
    LET mine == StocksOf(portfolio_stocks', p)
    IN  \A k \in DOMAIN mine :
           /\ mine[k].baseline_price # NULL
           /\ RMul(mine[k].shares, mine[k].baseline_price) =
                 RDiv(PortfolioBudget, R(Len(mine)))

TickersOnly(pf) == \A k \in DOMAIN pf : pf[k].shares = RZero

\* C18: after a successful join or edit in a competition with a budget, made
\* with a request that names tickers without share counts, every stock of the
\* resulting portfolio has shares * baselinePrice = budget / stockCount.
C18_EqualSlices ==
    [][/\ \A r \in JoinSlots :
             (/\ joinReq[r].pc # "idle" /\ joinReq'[r].pc = "idle"
              /\ last'.op = "join" /\ last'.result = "ok"
              /\ \A k \in DOMAIN joinReq[r].shares :
                    joinReq[r].shares[k] = RZero)
             => evenSlices(Len(participants'))
       /\ \A r \in EditSlots :
             (/\ EditEnds(r, "ok")
              /\ \A k \in DOMAIN editReq[r].shares :
                    editReq[r].shares[k] = RZero)
             => evenSlices(editReq[r].participant)
       /\ \A r \in EditSlots, id \in DOMAIN participants,
             pf \in {e \in EditPortfolios : TickersOnly(e)} :
             (EditStart(r, id, pf) /\ last'.result = "ok")
             => evenSlices(id)]_vars

\* C19: an edit that answers BudgetExceeded has inserted, updated and deleted
\* no stock at any point of the request: the participant's stocks are, before
\* and after the answering step, the ones the handler read at its start; and
\* a join that answers BudgetExceeded has written nothing.
C19_BudgetExceededWritesNothing ==
    [][/\ \A r \in EditSlots :
             EditEnds(r, "BudgetExceeded") =>
                /\ asRead(r, portfolio_stocks)
                /\ asRead(r, portfolio_stocks')
                /\ participants' = participants
       /\ (last'.op = "join" /\ last'.result = "BudgetExceeded") =>
             /\ portfolio_stocks' = portfolio_stocks
             /\ participants' = participants]_vars

\* C20: an edit or join of a backfill competition that answers
\* PriceUnavailable leaves the participant's stored stocks as they were at
\* the start of the request, and the participant record and the audit log
\* unchanged.
C20_PriceUnavailableWritesNothing ==
    [][/\ \A r \in EditSlots :
             EditEnds(r, "PriceUnavailable") =>
                /\ asRead(r, portfolio_stocks')
                /\ participants' = participants
                /\ audit_log' = audit_log
       /\ (last'.op = "join" /\ last'.result = "PriceUnavailable") =>
             /\ portfolio_stocks' = portfolio_stocks
             /\ participants' = participants
             /\ audit_log' = audit_log]_vars

\* ------------------------------------------------ specification SpecLimit
\* A backfill competition without budget has been created.
InitBackfill ==
    /\ now = StartTime
    /\ competitions = <<[id |-> 1,
                         pick_window_start |-> StartTime,
                         pick_window_end |-> StartTime + 1,
                         backfill_mode |-> 1,
                         finalized |-> 0,
                         budget |-> NULL]>>
    /\ participants = <<>>
    /\ portfolio_stocks = <<>>
    /\ audit_log = <<>>
    /\ price_history = <<>>
    /\ priceCache = <<>>
    /\ yahoo = YahooIdle
    /\ joinReq = [r \in JoinSlots |-> IdleJoin]
    /\ editReq = [r \in EditSlots |-> IdleEdit]
    /\ refreshReq = [r \in RefreshSlots |-> IdleRefresh]
    /\ last = NoResponse

\* A request portfolio of one share of each ticker listed.
OneEach(tickers) == [k \in DOMAIN tickers |-> Stock(tickers[k], R(1))]

TenTickers ==
    <<"T01", "T02", "T03", "T04", "T05", "T06", "T07", "T08", "T09", "T10">>

\* Requests with 1, 2, 10 and 11 tickers.
LimitPortfolios ==
    {OneEach(<<"T01">>), OneEach(<<"N01", "N02">>), OneEach(TenTickers),
     OneEach(Append(TenTickers, "T11"))}

\* Alice joins the backfill competition and edits her portfolio; the
\* historical price of a ticker an edit adds may be unavailable.
NextLimit ==
    \/ \E pf \in LimitPortfolios : JoinStart(1, 1, "Alice", pf)
    \/ JoinValidate(1, R(10))
    \/ JoinHistorical(1, R(10))
    \/ JoinCurrent(1, R(10))
    \/ /\ RoomForAudit(LimitAudit)
       /\ \E pf \in LimitPortfolios : EditStart(1, 1, pf)
    \/ EditValidate(1, R(10))
    \/ \E p \in {R(10), NULL} : EditHistorical(1, p)
    \/ EditCurrent(1, R(10))

SpecLimit == InitBackfill /\ [][NextLimit]_vars

\* C21: whenever no request is in progress, every participant's stored
\* portfolio holds at least 1 and at most 10 stocks; and a join or edit
\* request that lists more than 10 tickers answers ValidationError in its
\* first step, before any adapter call, and writes nothing.
C21_PortfolioSizeWithinLimits ==
    /\ [](Quiescent =>
            \A p \in DOMAIN participants :
               /\ Len(StocksOf(portfolio_stocks, p)) >= 1
               /\ Len(StocksOf(portfolio_stocks, p)) <= MAX_PORTFOLIO)
    /\ [][\A pf \in {f \in LimitPortfolios : Len(f) > MAX_PORTFOLIO} :
            (\/ JoinStart(1, 1, "Alice", pf)
             \/ EditStart(1, 1, pf))
            => /\ last'.result = "ValidationError"
               /\ UNCHANGED <<participants, portfolio_stocks, audit_log,
                              joinReq, editReq>>]_vars

\* ------------------------------------------------- specification SpecSkip
\* A live competition has been created.
InitLive ==
    /\ now = StartTime
    /\ competitions = <<[id |-> 1,
                         pick_window_start |-> StartTime,
                         pick_window_end |-> StartTime + 1,
                         backfill_mode |-> 0,
                         finalized |-> 0,
                         budget |-> NULL]>>
    /\ participants = <<>>
    /\ portfolio_stocks = <<>>
    /\ audit_log = <<>>
    /\ price_history = <<>>
    /\ priceCache = <<>>
    /\ yahoo = YahooIdle
    /\ joinReq = [r \in JoinSlots |-> IdleJoin]
    /\ editReq = [r \in EditSlots |-> IdleEdit]
    /\ refreshReq = [r \in RefreshSlots |-> IdleRefresh]
    /\ last = NoResponse

\* Alice joins with one or two stocks (the name check admits her once) and
\* detail requests refresh the competition, every adapter outcome possible.
NextSkip ==
    \/ \E pf \in {<<Stock("AAA", R(1))>>,
                  <<Stock("AAA", R(1)), Stock("BBB", R(1))>>} :
          JoinStart(1, 1, "Alice", pf)
    \/ JoinValidate(1, R(10))
    \/ \E p \in {R(10), NULL} : JoinCurrent(1, p)
    \/ /\ Len(price_history) < SkipHistory
       /\ DetailStart(1, 1)
    \/ \E p \in AdapterOutcomes : RefreshFetch(1, p)

SpecSkip == InitLive /\ [][NextSkip]_vars

\* ----------------------------------------------- specification SpecUnique
\* Requests that name one ticker twice, up to case and surrounding blanks.
DuplicatePortfolios ==
    {OneEach(<<"AAA", "aaa">>), OneEach(<<"AAA", "BBB", " AAA ">>)}

\* Alice joins the live competition; two edit requests for her portfolio can
\* be in progress at once, both adding BBB.
NextUnique ==
    \/ \E pf \in {OneEach(<<"AAA">>)} \cup DuplicatePortfolios :
          JoinStart(1, 1, "Alice", pf)
    \/ JoinValidate(1, R(10))
    \/ JoinCurrent(1, R(10))
    \/ /\ RoomForAudit(UniqueAudit)
       /\ \E r \in EditSlots,
             pf \in {OneEach(<<"AAA", "BBB">>), OneEach(<<"BBB">>)}
                    \cup DuplicatePortfolios :
             EditStart(r, 1, pf)
    \/ \E r \in EditSlots : EditValidate(r, R(10))
    \/ \E r \in EditSlots : EditHistorical(r, R(10))
    \/ \E r \in EditSlots : EditCurrent(r, R(10))

SpecUnique == InitLive /\ [][NextUnique]_vars

\* C22: in every reachable state, those reached by two overlapping edits of
\* one participant included, no two stocks of a participant have the same
\* ticker; and a join or edit request that names a ticker twice (after
\* trimming and upper-casing) answers ValidationError and changes nothing.
C22_TickersUniquePerParticipant ==
    /\ [](\A j, k \in DOMAIN portfolio_stocks :
            (/\ j # k
             /\ portfolio_stocks[j].participant_id =
                   portfolio_stocks[k].participant_id)
            => portfolio_stocks[j].ticker # portfolio_stocks[k].ticker)
    /\ [][\A pf \in DuplicatePortfolios, r \in EditSlots :
            (\/ JoinStart(1, 1, "Alice", pf)
             \/ EditStart(r, 1, pf))
            => /\ last'.result = "ValidationError"
               /\ UNCHANGED <<participants, portfolio_stocks, audit_log,
                              joinReq, editReq>>]_vars

\* Two overlapping edits both added BBB: the first stored it, the INSERT of
\* the second was refused by the table's UNIQUE constraint.
C22_Witness ==
    /\ last.op = "edit" /\ last.result = "InternalError"
    /\ \E k \in DOMAIN portfolio_stocks :
          portfolio_stocks[k].participant_id = 1
          /\ portfolio_stocks[k].ticker = "BBB"

\* ------------------------------------------------ specification SpecBoard
\* Alice and Bob join the live competition of the migrated database, which
\* holds Lee without aggregate; a refresh moves the aggregates; leaderboard
\* requests for both competitions and for one that does not exist.
NextBoard ==
    \/ \E name \in {"Alice", "Bob"}, t \in {"AAA", "BBB"} :
          JoinStart(1, 1, name, <<Stock(t, R(1))>>)
    \/ JoinValidate(1, R(10))
    \/ \E p \in Prices : JoinCurrent(1, p)
    \/ DetailStart(1, 1)
    \/ \E p \in Prices \cup {NULL} : RefreshFetch(1, p)
    \/ \E c \in SlugOrIds(Len(competitions)) : Leaderboard(c)

SpecBoard == InitMigrated /\ [][NextBoard]_vars

\* C24: the leaderboard of a competition lists every participant of the
\* competition exactly once, by aggregate percent change descending, the
\* null aggregates after all others, equal aggregates by name ascending, and
\* the rank of a row is its position.
C24_LeaderboardOrder ==
    (last.op = "leaderboard" /\ last.result = "ok") =>
        LET board == last.leaderboard
            rows == ParticipantsOf(last.comp)
        IN  /\ Len(board) = Len(rows)
            /\ \A k \in DOMAIN rows :
                  Cardinality({i \in DOMAIN board :
                                  /\ board[i].id = rows[k].id
                                  /\ board[i].name = rows[k].name
                                  /\ board[i].percent_change =
                                        rows[k].percent_change}) = 1
            /\ \A i \in DOMAIN board : board[i].rank = i
            /\ \A i, j \in DOMAIN board :
                  i < j =>
                     /\ board[i].percent_change = NULL
                           => board[j].percent_change = NULL
                     /\ (/\ board[i].percent_change # NULL
                         /\ board[j].percent_change # NULL)
                           => ~RLt(board[i].percent_change,
                                   board[j].percent_change)
                     /\ board[i].percent_change = board[j].percent_change
                           => nameBefore(board[i].name, board[j].name)

\* A leaderboard of three: Bob ahead of Alice by aggregate although his name
\* sorts after hers, and Lee, without aggregate, last.
C24_Witness ==
    /\ last.op = "leaderboard" /\ Len(last.leaderboard) = 3
    /\ last.leaderboard[1].name = "Bob"
    /\ last.leaderboard[2].name = "Alice"
    /\ last.leaderboard[3].percent_change = NULL

\* ------------------------------------------------ specification SpecTwice
\* The adapter's answers while the refreshes of SpecTwice run: a price for
\* AAA, nothing for any other ticker, the same at every call.
AdapterNow(ticker) == IF ticker = "AAA" THEN R(20) ELSE NULL

\* Alice joins the live competition of the migrated database; detail
\* requests refresh it, two at once or one after the other once the first
\* refresh is stale, and every fetch is answered by AdapterNow.
NextTwice ==
    \/ Tick(StartTime + TwiceTicks)
    \/ JoinStart(1, 1, "Alice", <<Stock("AAA", R(1)), Stock("BBB", R(3))>>)
    \/ JoinValidate(1, R(10))
    \/ \E p \in {R(10), NULL} : JoinCurrent(1, p)
    \/ \E r \in RefreshSlots : DetailStart(r, 1)
    \/ \E r \in RefreshSlots :
          /\ refreshReq[r].pc = "fetch"
          /\ RefreshFetch(r, AdapterNow(
                 refreshReq[r].stocks[refreshReq[r].i].ticker))

SpecTwice == InitMigrated /\ [][NextTwice]_vars

\* The stock row is what one refresh answered by AdapterNow leaves of it.
asOneRefreshLeaves(s) ==
    LET price == AdapterNow(s.ticker)
    IN  \/ price = NULL
        \/ /\ s.current_price = price
           /\ s.baseline_price # NULL
           /\ s.percent_change = percentOf(s.baseline_price, price)

\* C25: refresh is idempotent: while the adapter answers the same, a stock
\* that is as one refresh leaves it is not changed by any step of another
\* refresh, run after the first or overlapping it; and once a refresh has
\* completed and no request is in progress, the aggregate of every
\* participant with a fetched stock is the aggregate of these stocks.
C25_RefreshIdempotent ==
    /\ [][\A k \in DOMAIN portfolio_stocks :
            asOneRefreshLeaves(portfolio_stocks[k])
            => portfolio_stocks'[k] = portfolio_stocks[k]]_vars
    /\ []((Quiescent /\ 1 \in DOMAIN priceCache) =>
            \A p \in DOMAIN participants :
                (\E k \in DOMAIN portfolio_stocks :
                    /\ portfolio_stocks[k].participant_id = p
                    /\ AdapterNow(portfolio_stocks[k].ticker) # NULL)
                => participants[p].percent_change =
                      calculateWeightedPercentChange(pricedInput(p)))

\* Two refreshes have sampled AAA for Lee and for Alice (four samples), the
\* second has just completed, and Alice's AAA, bought at 10, stands at 20.
C25_Witness ==
    /\ Quiescent /\ last.op = "detail" /\ last.refresh = "refreshed"
    /\ Len(price_history) = 4
    /\ \E k \in DOMAIN portfolio_stocks :
          /\ portfolio_stocks[k].participant_id = 2
          /\ portfolio_stocks[k].baseline_price = R(10)
          /\ portfolio_stocks[k].current_price = R(20)
          /\ portfolio_stocks[k].percent_change = R(100)

\* C26: a refresh step whose fetch returned price p stores a stock whose
\* stored baseline is null with baseline = current = p and percent change 0,
\* and a stock whose stored baseline b is not null with current = p and
\* percent change (p - b) / b * 100, the baseline staying b.
C26_RefreshWritesByStoredBaseline ==
    [][\A r \in RefreshSlots, p \in Prices :
          RefreshFetch(r, p) =>
             \A k \in DOMAIN portfolio_stocks :
                portfolio_stocks[k].id = refreshReq[r].stocks[refreshReq[r].i].id
                => IF portfolio_stocks[k].baseline_price = NULL
                   THEN /\ portfolio_stocks'[k].baseline_price = p
                        /\ portfolio_stocks'[k].current_price = p
                        /\ portfolio_stocks'[k].percent_change = RZero
                   ELSE /\ portfolio_stocks'[k].baseline_price =
                              portfolio_stocks[k].baseline_price
                        /\ portfolio_stocks'[k].current_price = p
                        /\ portfolio_stocks'[k].percent_change =
                              percentOf(portfolio_stocks[k].baseline_price, p)]_vars

\* ------------------------------------------------------------- yahoo.ts
\* The handlers above take the result of an adapter call as an input.  The
\* actions below are the call itself, one step per await.

okBelow500(status) == status < 500

\* response.ok
ok(status) == status \in 200..299

\* The statuses the upstream answers with.
Statuses == {200, 404, 429, 503}

\* What response.json() resolves to, reduced to the price read from it (null
\* when the body carries none), or Rejected when the body does not parse.
Bodies == Prices \cup {NULL, Rejected}

YahooTickers == {"AAA", "aaa", "BBB"}

\* if (cached && Date.now() - cached.fetchedAt < CACHE_TTL_MS); the adapter's
\* CACHE_TTL_MS is five minutes as well.
cachedPrice(cacheKey) ==
    IF /\ cacheKey \in DOMAIN yahoo.cache
       /\ now - yahoo.cache[cacheKey].fetchedAt < CACHE_TTL_MS
    THEN yahoo.cache[cacheKey].price
    ELSE NULL

yahooUnchanged ==
    /\ last' = NoResponse
    /\ UNCHANGED <<now, competitions, participants, portfolio_stocks,
                   audit_log, price_history, priceCache, joinReq, editReq,
                   refreshReq>>

yahooCall(fn, ticker) ==
    [yahoo EXCEPT !.fn = fn, !.ticker = ticker, !.requests = 0,
                  !.responses = <<>>, !.returned = NoResult]

\* fetchPrice(ticker) up to its first await: a fresh cache entry is returned
\* at once, otherwise the first fetch(url) is issued.
fetchPrice(ticker) ==
    LET cacheKey == toUpperCase(ticker)
        call == yahooCall("fetchPrice", ticker)
    IN  /\ yahoo.pc = "idle"
        /\ yahoo' = IF cachedPrice(cacheKey) # NULL
                    THEN [call EXCEPT !.returned = cachedPrice(cacheKey)]
                    ELSE [call EXCEPT !.pc = "first", !.requests = 1]
        /\ yahooUnchanged

\* fetchHistoricalPrice(ticker, date) up to its first await: fetch(url).
fetchHistoricalPrice(ticker) ==
    /\ yahoo.pc = "idle"
    /\ yahoo' = [yahooCall("fetchHistoricalPrice", ticker) EXCEPT
                    !.pc = "first", !.requests = 1]
    /\ yahooUnchanged

\* if (!response.ok) return null; otherwise await response.json()
afterFetch(y, status) ==
    IF ~ok(status)
    THEN [y EXCEPT !.pc = "idle", !.returned = NULL]
    ELSE [y EXCEPT !.pc = "json"]

\* The first fetch resolves: if (response.status === 429) the call waits two
\* seconds, otherwise it goes on to the ok check.
FirstResponse(status) ==
    LET y == [yahoo EXCEPT !.responses = Append(yahoo.responses, status)]
    IN  /\ yahoo.pc = "first"
        /\ yahoo' = IF status = 429 THEN [y EXCEPT !.pc = "timeout"]
                    ELSE afterFetch(y, status)
        /\ yahooUnchanged

\* The two seconds are over: response = await fetch(url, ...) once more.
RetryFetch ==
    /\ yahoo.pc = "timeout"
    /\ yahoo' = [yahoo EXCEPT !.pc = "second",
                              !.requests = yahoo.requests + 1]
    /\ yahooUnchanged

\* The second fetch resolves; whatever its status, the ok check follows.
SecondResponse(status) ==
    LET y == [yahoo EXCEPT !.responses = Append(yahoo.responses, status)]
    IN  /\ yahoo.pc = "second"
        /\ yahoo' = afterFetch(y, status)
        /\ yahooUnchanged

\* fetch() rejects (no connection): nothing catches it, the call throws.
FetchRejects ==
    /\ yahoo.pc \in {"first", "second"}
    /\ yahoo' = [yahoo EXCEPT !.pc = "idle", !.returned = Rejected]
    /\ yahooUnchanged

\* response.json() resolves.  fetchPrice stores a price it found in the
\* cache; fetchHistoricalPrice returns the close it found, or null.
JsonResolves(body) ==
    LET cacheKey == toUpperCase(yahoo.ticker)
        entry == [price |-> body, fetchedAt |-> now]
        stored == yahoo.fn = "fetchPrice" /\ body # NULL /\ body # Rejected
    IN  /\ yahoo.pc = "json"
        /\ yahoo' = [yahoo EXCEPT
               !.pc = "idle", !.returned = body,
               !.cache = IF stored
                         THEN [k \in DOMAIN yahoo.cache \cup {cacheKey} |->
                                 IF k = cacheKey THEN entry
                                 ELSE yahoo.cache[k]]
                         ELSE yahoo.cache]
        /\ yahooUnchanged

\* How long the clock runs while adapter calls are made.
YahooTicks == 5

NextYahoo ==
    \/ Tick(StartTime + YahooTicks)
    \/ \E ticker \in YahooTickers : fetchPrice(ticker)
    \/ \E ticker \in YahooTickers : fetchHistoricalPrice(ticker)
    \/ \E status \in Statuses : FirstResponse(status)
    \/ RetryFetch
    \/ \E status \in Statuses : SecondResponse(status)
    \/ FetchRejects
    \/ \E body \in Bodies : JsonResolves(body)

SpecYahoo == Init /\ [][NextYahoo]_vars

\* C27: one call of fetchPrice or fetchHistoricalPrice issues at most two
\* upstream requests, and a second one only after the first was answered
\* with status 429; once the response the call settles on (the second one, or
\* a first one other than 429) has arrived and is not OK, the call has
\* returned null and issued no request after it.
C27_AtMostOneRetry ==
    LET n == Len(yahoo.responses)
        settled == n = 2 \/ (n = 1 /\ yahoo.responses[1] # 429)
    IN  /\ yahoo.requests <= 2
        /\ n <= yahoo.requests
        /\ yahoo.requests = 2 => n >= 1 /\ yahoo.responses[1] = 429
        /\ settled /\ yahoo.responses[n] \notin 200..299
              => /\ yahoo.pc = "idle"
                 /\ yahoo.returned = NULL
                 /\ yahoo.requests = n

\* A call was rate-limited, retried once, was rate-limited again and returned
\* null after two requests.
C27_Witness ==
    /\ yahoo.pc = "idle"
    /\ yahoo.fn = "fetchHistoricalPrice"
    /\ yahoo.responses = <<429, 429>>
    /\ yahoo.requests = 2
    /\ yahoo.returned = NULL

\* C28: for each competition the time of the last refresh held in priceCache
\* never decreases, also when two refreshes of the competition overlap and
\* the one that started earlier finishes later.
C28_LastRefreshNeverDecreases ==
    [][\A id \in DOMAIN priceCache :
          /\ id \in DOMAIN priceCache'
          /\ priceCache'[id] >= priceCache[id]]_vars

\* ---------------------------------------------- specification SpecRelock
\* A live competition whose pick window ends at StartTime, with participant
\* Alice, and a backfill competition with participant Bob have been created.
InitRelock ==
    /\ now = StartTime
    /\ competitions = <<[id |-> 1,
                         pick_window_start |-> StartTime - 1,
                         pick_window_end |-> StartTime,
                         backfill_mode |-> 0,
                         finalized |-> 0,
                         budget |-> NULL],
                        [id |-> 2,
                         pick_window_start |-> StartTime,
                         pick_window_end |-> StartTime + 1,
                         backfill_mode |-> 1,
                         finalized |-> 0,
                         budget |-> NULL]>>
    /\ participants = [p \in {1, 2} |->
          [id |-> p, competition_id |-> p,
           name |-> IF p = 1 THEN "Alice" ELSE "Bob",
           ticker |-> "AAA", percent_change |-> RZero]]
    /\ portfolio_stocks = [p \in {1, 2} |->
          [id |-> p, participant_id |-> p, ticker |-> "AAA",
           shares |-> R(1), baseline_price |-> R(10),
           current_price |-> R(10), percent_change |-> RZero]]
    /\ audit_log = <<>>
    /\ price_history = <<>>
    /\ priceCache = <<>>
    /\ yahoo = YahooIdle
    /\ joinReq = [r \in JoinSlots |-> IdleJoin]
    /\ editReq = [r \in EditSlots |-> IdleEdit]
    /\ refreshReq = [r \in RefreshSlots |-> IdleRefresh]
    /\ last = NoResponse

RelockTicks == 2
RelockComps == 3
RelockParticipants == 3
RelockAudit == 3

\* The clock runs past the live pick window while a third competition is
\* created, competitions are finalized and unfinalized, Lee asks to join the
\* live competition, Alice reweights her stock and detail requests refresh
\* the live competition's prices.
NextRelock ==
    \/ Tick(StartTime + RelockTicks)
    \/ /\ Len(competitions) < RelockComps
       /\ \E b \in BOOLEAN :
             CreateCompetition(StartTime + 1, StartTime + 2, b, NULL)
    \/ /\ RoomForAudit(RelockAudit)
       /\ \E c \in DOMAIN competitions : Finalize(c)
    \/ /\ RoomForAudit(RelockAudit)
       /\ \E c \in DOMAIN competitions : Unfinalize(c)
    \/ /\ RoomForParticipant(RelockParticipants)
       /\ RoomForAudit(RelockAudit)
       /\ JoinStart(1, 1, "Lee", <<Stock("AAA", R(1))>>)
    \/ JoinValidate(1, R(10))
    \/ JoinCurrent(1, R(10))
    \/ /\ RoomForAudit(RelockAudit)
       /\ EditStart(1, 1, <<Stock("AAA", R(2))>>)
    \/ DetailStart(1, 1)
    \/ RefreshFetch(1, R(20))

SpecRelock == InitRelock /\ [][NextRelock]_vars

\* The lock and unlock events the audit log holds for a competition.
lockEvents(competitionId, action) ==
    Len(SelectSeq(audit_log, LAMBDA e : /\ e.competition_id = competitionId
                                        /\ e.action = action))

\* C29: a live competition that is locked is locked after every step,
\* whatever request the step serves, and a join or edit request that arrives
\* while it is locked is refused with CompetitionLocked and writes nothing;
\* a backfill competition with participants can always change sides: when
\* finalized an unfinalize request succeeds, when open a finalize request.
C29_LiveLockIsFinal ==
    /\ [][\A c \in DOMAIN competitions :
            (/\ competitions[c].backfill_mode = 0
             /\ isCompetitionLocked(competitions[c], now))
            => /\ competitions'[c].backfill_mode = 0
               /\ isCompetitionLocked(competitions'[c], now')
               /\ (c = 1 /\ JoinStart(1, c, "Lee", <<Stock("AAA", R(1))>>))
                     => /\ last'.result = "CompetitionLocked"
                        /\ UNCHANGED <<participants, portfolio_stocks,
                                       audit_log, joinReq>>
               /\ \A id \in DOMAIN participants :
                     (/\ participants[id].competition_id = c
                      /\ EditStart(1, id, <<Stock("AAA", R(2))>>))
                     => /\ last'.result = "CompetitionLocked"
                        /\ UNCHANGED <<participants, portfolio_stocks,
                                       audit_log, editReq>>]_vars
    /\ [](\A c \in DOMAIN competitions :
            (/\ competitions[c].backfill_mode # 0
             /\ Len(ParticipantsOf(c)) > 0)
            => IF isCompetitionLocked(competitions[c], now)
               THEN unfinalizeOutcome(c) = "ok"
               ELSE finalizeOutcome(c) = "ok")

\* The backfill competition has been locked and opened again, and the live
\* competition, locked by the clock, has just refused a join.
C29_Witness ==
    /\ lockEvents(2, "lock") = 1
    /\ lockEvents(2, "unlock") = 1
    /\ ~isCompetitionLocked(competitions[2], now)
    /\ isCompetitionLocked(competitions[1], now)
    /\ last.op = "join"
    /\ last.comp = 1
    /\ last.result = "CompetitionLocked"

\* -------------------------------------------- specification SpecUpcoming
UpcomingTicks == 4
UpcomingAudit == 3

\* A live competition is created whose pick window starts two minutes after
\* StartTime; Alice joins and reweights, detail requests are served, and the
\* clock runs from before the window to after it.
NextUpcoming ==
    \/ Tick(StartTime + UpcomingTicks)
    \/ /\ Len(competitions) < 1
       /\ CreateCompetition(StartTime + 2, StartTime + 3, FALSE, NULL)
    \/ /\ RoomForAudit(UpcomingAudit)
       /\ JoinStart(1, 1, "Alice", <<Stock("AAA", R(1))>>)
    \/ \E p \in {R(10), NULL} : JoinValidate(1, p)
    \/ \E p \in {R(10), NULL} : JoinCurrent(1, p)
    \/ /\ RoomForAudit(UpcomingAudit)
       /\ EditStart(1, 1, <<Stock("AAA", R(2))>>)
    \/ DetailStart(1, 1)
    \/ \E p \in {R(20), NULL} : RefreshFetch(1, p)

SpecUpcoming == Init /\ [][NextUpcoming]_vars

\* now < pick_window_start of a live competition
Upcoming(c) ==
    /\ c \in DOMAIN competitions
    /\ competitions[c].backfill_mode = 0
    /\ now < competitions[c].pick_window_start

C11_UnknownPriceLeavesStock ==
    [][\A r \in RefreshSlots :
        /\ RefreshFetch(r, NULL) =>
              /\ portfolio_stocks' = portfolio_stocks
              /\ price_history' = price_history
        /\ \A p \in Prices :
              RefreshFetch(r, p) =>
                 LET stock == refreshReq[r].stocks[refreshReq[r].i]
                 IN  /\ \A k \in DOMAIN portfolio_stocks :
                           IF portfolio_stocks[k].id = stock.id
                           THEN /\ portfolio_stocks'[k].current_price = p
                                /\ portfolio_stocks'[k].percent_change # NULL
                           ELSE portfolio_stocks'[k] = portfolio_stocks[k]
                     /\ price_history' =
                           Append(price_history,
                                  [ticker |-> stock.ticker, price |-> p])]_vars

\* A refresh of two stocks has ended in which one fetch returned null and the
\* other a new price: one sample, one stock at the new price, one as stored.
C11_Witness ==
    /\ last.op = "detail" /\ last.refresh = "refreshed" /\ last.total = 2
    /\ Len(price_history) = 1
    /\ \E j, k \in DOMAIN portfolio_stocks :
          /\ portfolio_stocks[j].current_price = R(20)
          /\ portfolio_stocks[k].current_price = R(10)

\* C12: a refresh never fails as a whole: whatever the adapter calls come to
\* (a price, null, a network failure, an unparseable response), a refresh that
\* has started requests a price for every portfolio stock, returns normally to
\* the detail request and sets the last-refresh timestamp.
C12_RefreshNeverFails ==
    [][\A r \in RefreshSlots :
        RefreshEnded(r) =>
            /\ last'.op = "detail" /\ last'.result = "ok"
            /\ last'.calls = last'.total
            /\ refreshReq[r].comp \in DOMAIN priceCache']_vars

\* ----------------------------------------------- claims on SpecLock
\* The step answers a finalize (unfinalize) request for competition c.
FinalizeStep(c) == last'.op = "finalize" /\ last'.comp = c
UnfinalizeStep(c) == last'.op = "unfinalize" /\ last'.comp = c

Raised(c) == competitions[c].finalized = 0 /\ competitions'[c].finalized = 1
Lowered(c) == competitions[c].finalized = 1 /\ competitions'[c].finalized = 0

\* C6: a finalize request raises the competition's finalized flag from 0 to 1
\* if and only if the competition is a backfill competition, is not finalized
\* and has a participant; on a live competition it answers NotBackfill, on a
\* finalized backfill competition AlreadyFinalized, on a backfill competition
\* without participants EmptyCompetition, and in these cases the flag and the
\* audit log stay as they are.
C6_FinalizeGuard ==
    [][\A c \in DOMAIN competitions :
        FinalizeStep(c) =>
            LET backfill == competitions[c].backfill_mode = 1
                finalized == competitions[c].finalized = 1
                entrants == Len(ParticipantsOf(c))
                kept == /\ competitions'[c].finalized = competitions[c].finalized
                        /\ audit_log' = audit_log
            IN  /\ Raised(c) <=> (backfill /\ ~finalized /\ entrants >= 1)
                /\ Raised(c) <=> last'.result = "ok"
                /\ ~backfill => last'.result = "NotBackfill" /\ kept
                /\ (backfill /\ finalized) =>
                       last'.result = "AlreadyFinalized" /\ kept
                /\ (backfill /\ ~finalized /\ entrants = 0) =>
                       last'.result = "EmptyCompetition" /\ kept]_vars

\* A finalize request has just locked a backfill competition with a participant.
C6_Witness ==
    /\ last.op = "finalize" /\ last.result = "ok"
    /\ competitions[last.comp].finalized = 1
    /\ Len(ParticipantsOf(last.comp)) >= 1

\* C7: an unfinalize request lowers the competition's finalized flag from 1 to
\* 0 if and only if the competition is a finalized backfill competition; on a
\* live competition and on a backfill competition that is not finalized it
\* answers an error and leaves the flag, the participants and the audit log
\* as they are.
C7_UnfinalizeGuard ==
    [][\A c \in DOMAIN competitions :
        UnfinalizeStep(c) =>
            LET backfill == competitions[c].backfill_mode = 1
                finalized == competitions[c].finalized = 1
            IN  /\ Lowered(c) <=> (backfill /\ finalized)
                /\ Lowered(c) <=> last'.result = "ok"
                /\ ~(backfill /\ finalized) =>
                       /\ last'.result \in {"NotBackfill", "NotFinalized"}
                       /\ competitions' = competitions
                       /\ participants' = participants
                       /\ audit_log' = audit_log]_vars

\* An unfinalize request has just been refused on a backfill competition that
\* has a participant and is not finalized, after an earlier lock and unlock.
C7_Witness ==
    /\ last.op = "unfinalize" /\ last.result = "NotFinalized"
    /\ Len(ParticipantsOf(last.comp)) >= 1
    /\ \E k \in DOMAIN audit_log : audit_log[k].action = "unlock"

\* The lock / unlock events of competition c, oldest first.
LockEvents(c) ==
    SelectSeq(audit_log, LAMBDA e : e.competition_id = c
                                    /\ e.action \in {"lock", "unlock"})

\* C8: a finalize request that succeeds appends exactly one lock event, an
\* unfinalize request that succeeds exactly one unlock event, a refused one
\* appends nothing; the lock / unlock events of every competition alternate,
\* the first being a lock, and the competition is finalized exactly when the
\* latest of them is a lock.
C8_LockAuditTrail ==
    /\ [][\A c \in DOMAIN competitions :
            /\ FinalizeStep(c) =>
                 audit_log' = IF last'.result = "ok"
                              THEN Append(audit_log,
                                     [competition_id |-> c, action |-> "lock",
                                      actor_name |-> NoName])
                              ELSE audit_log
            /\ UnfinalizeStep(c) =>
                 audit_log' = IF last'.result = "ok"
                              THEN Append(audit_log,
                                     [competition_id |-> c, action |-> "unlock",
                                      actor_name |-> NoName])
                              ELSE audit_log]_vars
    /\ [](\A c \in DOMAIN competitions :
            LET events == LockEvents(c)
            IN  /\ \A k \in DOMAIN events :
                      events[k].action = IF k % 2 = 1 THEN "lock" ELSE "unlock"
                /\ competitions[c].finalized = 1 <=>
                      (events # <<>> /\ events[Len(events)].action = "lock"))

\* A competition was locked, unlocked and locked again.
C8_Witness ==
    \E c \in DOMAIN competitions :
        /\ Len(LockEvents(c)) = 3
        /\ competitions[c].finalized = 1

====
